---- MODULE Spec2Model ----
(***************************************************************************)
(* A model of backupTool.js: a command-line script that drives git and the *)
(* GitHub CLI.  Text (file contents, names, command output) is modelled as *)
(* a sequence of atoms: an atom is a run of characters that the script     *)
(* never looks into, or one of the characters it does look at.             *)
(***************************************************************************)
EXTENDS Integers, Sequences, FiniteSets, TLC

\* ------------------------------------------------------------------ bounds
MaxLen == 4
MaxStr == 2
MaxCommits == 3
MaxUnusual == 1

\* ------------------------------------------------------------------- text
TOOL_DIR == "backupTool"
CONFIG_FILE == "backup-config.json"
NL == "\n"
DQ == "\""
BSL == "\\"
SP == " "

RECURSIVE Join(_, _)
Join(parts, sep) ==
    IF parts = <<>> THEN <<>>
    ELSE IF Len(parts) = 1 THEN parts[1]
    ELSE parts[1] \o sep \o Join(Tail(parts), sep)

StartsWith(s, t) == Len(t) <= Len(s) /\ SubSeq(s, 1, Len(t)) = t

EndsWith(s, t) == Len(t) <= Len(s) /\ SubSeq(s, Len(s) - Len(t) + 1, Len(s)) = t

Includes(s, t) == \E i \in 1..(Len(s) - Len(t) + 1) : SubSeq(s, i, i + Len(t) - 1) = t

RECURSIVE Split(_, _)
Split(s, sep) ==
    IF \A i \in 1..Len(s) : s[i] # sep THEN <<s>>
    ELSE LET i == CHOOSE j \in 1..Len(s) : s[j] = sep /\ \A k \in 1..(j - 1) : s[k] # sep
         IN  <<SubSeq(s, 1, i - 1)>> \o Split(SubSeq(s, i + 1, Len(s)), sep)

IsSpace(c) == c \in {SP, NL}

RECURSIVE TrimStart(_)
TrimStart(s) == IF s # <<>> /\ IsSpace(s[1]) THEN TrimStart(Tail(s)) ELSE s

RECURSIVE TrimEnd(_)
TrimEnd(s) == IF s # <<>> /\ IsSpace(s[Len(s)]) THEN TrimEnd(SubSeq(s, 1, Len(s) - 1)) ELSE s

Trim(s) == TrimEnd(TrimStart(s))

SeqsUpTo(S, n) == UNION {[1..k -> S] : k \in 0..n}

\* ------------------------------------------------------------------- JSON
\* A JavaScript object is an ordered list of entries; a value is a string
\* (t = "str", in s), a number (t = "num", in n) or an array of strings
\* (t = "arr", in a).
StrEntry(k, v) == [k |-> k, t |-> "str", s |-> v, n |-> 0, a |-> <<>>]
NumEntry(k, v) == [k |-> k, t |-> "num", s |-> <<>>, n |-> v, a |-> <<>>]
ArrEntry(k, v) == [k |-> k, t |-> "arr", s |-> <<>>, n |-> 0, a |-> v]

HasKey(obj, key) == \E i \in 1..Len(obj) : obj[i].k = key

Get(obj, key) == obj[CHOOSE i \in 1..Len(obj) : obj[i].k = key]

SetStr(obj, key, v) ==
    IF HasKey(obj, key)
    THEN [i \in 1..Len(obj) |-> IF obj[i].k = key THEN StrEntry(key, v) ELSE obj[i]]
    ELSE Append(obj, StrEntry(key, v))

Digits == <<"0", "1", "2", "3", "4", "5", "6", "7", "8", "9">>
IsDigit(c) == \E d \in 1..10 : Digits[d] = c
DigitVal(c) == (CHOOSE d \in 1..10 : Digits[d] = c) - 1

RECURSIVE NatToText(_)
NatToText(n) == IF n < 10 THEN <<Digits[n + 1]>> ELSE NatToText(n \div 10) \o <<Digits[(n % 10) + 1]>>

NumToText(n) == IF n < 0 THEN <<"-">> \o NatToText(0 - n) ELSE NatToText(n)

\* QuoteChar as it would be if the backslash were left unescaped.
QuoteCharPlainBackslash(c) ==
    IF c = DQ THEN <<BSL, DQ>>
    ELSE IF c = NL THEN <<BSL, "n">>
    ELSE <<c>>

QuoteChar(c) ==
    IF c = DQ THEN <<BSL, DQ>>
    ELSE IF c = BSL THEN <<BSL, BSL>>
    ELSE IF c = NL THEN <<BSL, "n">>
    ELSE <<c>>

RECURSIVE QuoteBody(_)
QuoteBody(s) == IF s = <<>> THEN <<>> ELSE QuoteChar(s[1]) \o QuoteBody(Tail(s))

Quote(s) == <<DQ>> \o QuoteBody(s) \o <<DQ>>

Indent(n) == [i \in 1..n |-> SP]

StringifyArr(a, ind) ==
    IF a = <<>> THEN <<"[", "]">>
    ELSE <<"[", NL>>
         \o Join([i \in 1..Len(a) |-> Indent(ind + 2) \o Quote(a[i])], <<",", NL>>)
         \o <<NL>> \o Indent(ind) \o <<"]">>

StringifyValue(e, ind) ==
    IF e.t = "str" THEN Quote(e.s)
    ELSE IF e.t = "num" THEN NumToText(e.n)
    ELSE StringifyArr(e.a, ind)

\* JSON.stringify(obj, null, 2)
JSONstringify(obj) ==
    IF obj = <<>> THEN <<"{", "}">>
    ELSE <<"{", NL>>
         \o Join([i \in 1..Len(obj) |->
                    Indent(2) \o Quote(obj[i].k) \o <<":", SP>> \o StringifyValue(obj[i], 2)],
                 <<",", NL>>)
         \o <<NL, "}">>

\* The parser: every Parse operator returns [ok, v, next], next being the
\* position after what it read.
At(s, i) == IF i <= Len(s) THEN s[i] ELSE "EOF"

RECURSIVE SkipWs(_, _)
SkipWs(s, i) == IF i <= Len(s) /\ IsSpace(s[i]) THEN SkipWs(s, i + 1) ELSE i

ParseFail == [ok |-> FALSE, s |-> <<>>, n |-> 0, a |-> <<>>, o |-> <<>>, next |-> 0]

RECURSIVE ParseStrBody(_, _, _)
ParseStrBody(s, i, acc) ==
    IF i > Len(s) THEN ParseFail
    ELSE IF s[i] = DQ THEN [ParseFail EXCEPT !.ok = TRUE, !.s = acc, !.next = i + 1]
    ELSE IF s[i] = NL THEN ParseFail
    ELSE IF s[i] = BSL THEN
        IF At(s, i + 1) = DQ THEN ParseStrBody(s, i + 2, Append(acc, DQ))
        ELSE IF At(s, i + 1) = BSL THEN ParseStrBody(s, i + 2, Append(acc, BSL))
        ELSE IF At(s, i + 1) = "n" THEN ParseStrBody(s, i + 2, Append(acc, NL))
        ELSE ParseFail
    ELSE ParseStrBody(s, i + 1, Append(acc, s[i]))

ParseString(s, i) == IF At(s, i) = DQ THEN ParseStrBody(s, i + 1, <<>>) ELSE ParseFail

RECURSIVE ParseDigits(_, _, _)
ParseDigits(s, i, acc) ==
    IF IsDigit(At(s, i)) THEN ParseDigits(s, i + 1, acc * 10 + DigitVal(s[i]))
    ELSE [ParseFail EXCEPT !.ok = TRUE, !.n = acc, !.next = i]

Negated(r) == [r EXCEPT !.n = 0 - r.n]

ParseUnsigned(s, j) ==
    IF ~IsDigit(At(s, j)) THEN ParseFail
    ELSE IF At(s, j) = "0" /\ IsDigit(At(s, j + 1)) THEN ParseFail
    ELSE ParseDigits(s, j, 0)

ParseNumber(s, i) ==
    IF At(s, i) = "-" THEN Negated(ParseUnsigned(s, i + 1)) ELSE ParseUnsigned(s, i)

RECURSIVE ParseArrItems(_, _, _)
ArrAfterItem(s, acc, j) ==
    IF At(s, j) = "," THEN ParseArrItems(s, j + 1, acc)
    ELSE IF At(s, j) = "]" THEN [ParseFail EXCEPT !.ok = TRUE, !.a = acc, !.next = j + 1]
    ELSE ParseFail

ArrItem(s, acc, item) ==
    IF ~item.ok THEN ParseFail
    ELSE ArrAfterItem(s, Append(acc, item.s), SkipWs(s, item.next))

ParseArrItems(s, i, acc) == ArrItem(s, acc, ParseString(s, SkipWs(s, i)))

ParseArray(s, i) ==
    IF At(s, i) # "[" THEN ParseFail
    ELSE IF At(s, SkipWs(s, i + 1)) = "]"
    THEN [ParseFail EXCEPT !.ok = TRUE, !.next = SkipWs(s, i + 1) + 1]
    ELSE ParseArrItems(s, i + 1, <<>>)

\* What was read, as the entry of that key.
AsEntry(key, t, r) ==
    [r EXCEPT !.o = << [k |-> key, t |-> t, s |-> r.s, n |-> r.n, a |-> r.a] >>]

ParseValue(s, i, key) ==
    IF At(s, i) = DQ THEN AsEntry(key, "str", ParseString(s, i))
    ELSE IF At(s, i) = "[" THEN AsEntry(key, "arr", ParseArray(s, i))
    ELSE AsEntry(key, "num", ParseNumber(s, i))

\* A repeated key keeps its first position and takes the last value.
PutEntry(obj, e) ==
    IF HasKey(obj, e.k)
    THEN [i \in 1..Len(obj) |-> IF obj[i].k = e.k THEN e ELSE obj[i]]
    ELSE Append(obj, e)

RECURSIVE ParseMembers(_, _, _)
MemberAfterValue(s, acc, j) ==
    IF At(s, j) = "," THEN ParseMembers(s, j + 1, acc)
    ELSE IF At(s, j) = "}" THEN [ParseFail EXCEPT !.ok = TRUE, !.o = acc, !.next = j + 1]
    ELSE ParseFail

MemberValue(s, acc, val) ==
    IF ~val.ok THEN ParseFail
    ELSE MemberAfterValue(s, PutEntry(acc, val.o[1]), SkipWs(s, val.next))

MemberColon(s, acc, key, c) ==
    IF At(s, c) # ":" THEN ParseFail
    ELSE MemberValue(s, acc, ParseValue(s, SkipWs(s, c + 1), key.s))

MemberKey(s, acc, key) ==
    IF ~key.ok THEN ParseFail ELSE MemberColon(s, acc, key, SkipWs(s, key.next))

ParseMembers(s, i, acc) == MemberKey(s, acc, ParseString(s, SkipWs(s, i)))

ParseObject(s, i) ==
    IF At(s, i) # "{" THEN ParseFail
    ELSE IF At(s, SkipWs(s, i + 1)) = "}"
    THEN [ParseFail EXCEPT !.ok = TRUE, !.next = SkipWs(s, i + 1) + 1]
    ELSE ParseMembers(s, i + 1, <<>>)

\* JSON.parse(text): ok = FALSE is the SyntaxError it throws.
ParsedWhole(text, r) ==
    IF r.ok /\ SkipWs(text, r.next) = Len(text) + 1
    THEN [ok |-> TRUE, obj |-> r.o]
    ELSE [ok |-> FALSE, obj |-> <<>>]

JSONparse(text) == ParsedWhole(text, ParseObject(text, SkipWs(text, 1)))

\* ------------------------------------------------------------------ files
NoFile == [exists |-> FALSE, content |-> <<>>]
File(text) == [exists |-> TRUE, content |-> text]
Null == [null |-> TRUE, obj |-> <<>>]
Obj(o) == [null |-> FALSE, obj |-> o]

\* ----------------------------------------------------------- config store
\* The try/catch around JSON.parse in readConfig.
ParsedOrNull(r) == IF r.ok THEN Obj(r.obj) ELSE Null

\* readConfig(): ioOk = FALSE is readFileSync throwing.
readConfig(file, pathSet, ioOk) ==
    IF ~pathSet \/ ~file.exists THEN Null
    ELSE IF ~ioOk THEN Null
    ELSE ParsedOrNull(JSONparse(file.content))

\* The text updateConfig writes.
ConfigText(newConfigData) == JSONstringify(newConfigData)

\* updateConfig(newConfigData): [ret, file], ioOk = FALSE is writeFileSync throwing.
updateConfig(file, newConfigData, pathSet, ioOk) ==
    IF ~pathSet THEN [ret |-> FALSE, file |-> file]
    ELSE IF ~ioOk THEN [ret |-> FALSE, file |-> file]
    ELSE [ret |-> TRUE, file |-> File(ConfigText(newConfigData))]

DefaultIgnores ==
    << <<".env*">>, <<"*.log">>, <<"*.tmp">>, <<"node_modules/">>, <<".wrangler/">>, <<"dist/">>,
       <<"build/">>, <<"__pycache__/">>, <<".vscode/settings.json">>, <<"Thumbs.db">>,
       <<".DS_Store">>, <<"/", TOOL_DIR, "/">> >>

MaxBackupAttempts == 5

\* The object createProjectConfig writes for a project directory of that name.
DefaultConfig(projectNameForConfig, now) ==
    << StrEntry(<<"projectName">>, projectNameForConfig),
       StrEntry(<<"githubUsername">>, <<>>),
       StrEntry(<<"backupBranch">>, <<"main">>),
       ArrEntry(<<"autoIgnoreFiles">>, DefaultIgnores),
       NumEntry(<<"maxBackupAttempts">>, MaxBackupAttempts),
       StrEntry(<<"createdAt">>, now),
       StrEntry(<<"version">>, <<"2.7-nodejs-console-quieter">>) >>

\* -------------------------------------------------------------- .gitignore
toolGitignoreContent ==
    <<NL, "#", SP, TOOL_DIR, NL, "/", TOOL_DIR, "/", NL, ".env*", NL, "*.key", NL,
      "*.pem", NL, "config.local.*", NL>>

toolGitignoreMarker == <<"#", SP, TOOL_DIR>>

GeneratedHeader == <<"#", SP, "Generated", SP, "by", SP, TOOL_DIR, NL>>

RuleMissing(gitignoreContent, rule) ==
    LET trimmedRule == Trim(rule)
        ruleToCheck == IF EndsWith(trimmedRule, <<"/">>)
                       THEN SubSeq(trimmedRule, 1, Len(trimmedRule) - 1)
                       ELSE trimmedRule
    IN  trimmedRule # <<>> /\ ~Includes(gitignoreContent, ruleToCheck)

rulesToAdd(gitignoreContent) ==
    SelectSeq(Split(toolGitignoreContent, NL), LAMBDA rule : RuleMissing(gitignoreContent, rule))

\* HasMarker as it would be if the marker were never looked for.
HasMarkerIgnored(gitignoreContent) == FALSE

HasMarker(gitignoreContent) == Includes(gitignoreContent, toolGitignoreMarker)

contentToAppend(gitignoreContent) ==
    IF rulesToAdd(gitignoreContent) # <<>>
    THEN (IF HasMarker(gitignoreContent)
          THEN <<NL>>
          ELSE <<NL>> \o toolGitignoreMarker \o <<NL, "#", SP, TOOL_DIR, SP, "rules", NL>>)
         \o Join(rulesToAdd(gitignoreContent), <<NL>>) \o <<NL>>
    ELSE IF ~Includes(gitignoreContent, <<"/", TOOL_DIR, "/">>)
    THEN <<NL>> \o toolGitignoreMarker \o <<NL, "/", TOOL_DIR, "/", NL>>
    ELSE <<>>

AppendPrefix(gitignoreContent, toAppend) ==
    IF gitignoreContent # <<>> /\ ~EndsWith(gitignoreContent, <<NL>>) THEN <<NL>>
    ELSE IF /\ gitignoreContent # <<>>
            /\ EndsWith(gitignoreContent, <<NL>>)
            /\ ~EndsWith(gitignoreContent, <<NL, NL>>)
            /\ ~StartsWith(toAppend, <<NL>>)
    THEN <<NL>>
    ELSE <<>>

\* updateProjectGitignore(targetDir): the file it leaves.  readOk and writeOk
\* say whether readFileSync and writeFileSync/appendFileSync succeed.
updateProjectGitignore(file, readOk, writeOk) ==
    IF ~file.exists
    THEN IF writeOk THEN File(GeneratedHeader \o toolGitignoreContent) ELSE file
    ELSE IF ~readOk THEN file
    ELSE IF HasMarker(file.content) THEN file
    ELSE LET toAppend == contentToAppend(file.content)
         IN  IF toAppend # <<>> /\ writeOk
             THEN File(file.content \o AppendPrefix(file.content, toAppend) \o toAppend)
             ELSE file

\* -------------------------------------------------------------------- git
\* The repository the git commands act on, as one record:
\*   isRepo      <projectRoot>/.git exists
\*   inWorkTree  git finds a repository from projectRoot (its own or a parent's)
\*   hasOrigin   a remote named origin is configured
\*   commits     the object store: commit i is commits[i] = [parent, author, tree]
\*   branches    local branch heads (0: no such branch)
\*   head        the branch HEAD names, or Detached
\*   detachedAt  the commit of a detached HEAD
\*   tracking    the remote-tracking refs origin/<branch>
\*   remote      the branch heads on the server
\*   index, wt   the staged and the working-tree content (sets of content units)
\*   identity    the global user.name / user.email, or NoIdentity
\*   origin      the URL of the remote named origin (<<>> without one)
Detached == <<"HEAD">>

\* https://github.com/<owner>/<repo>.git
GithubUrl(owner, repo) == <<"https://", "github.com", "/">> \o owner \o <<"/">> \o repo \o <<".git">>

NoIdentity == [name |-> <<>>, email |-> <<>>]

RECURSIVE Ancestors(_, _)
Ancestors(commits, c) ==
    IF c = 0 THEN {} ELSE {c} \cup Ancestors(commits, commits[c].parent)

SetMax(S) == CHOOSE x \in S : \A y \in S : y <= x

\* git merge-base: the nearest common ancestor, 0 when the histories are unrelated
MergeBase(commits, a, b) ==
    LET common == Ancestors(commits, a) \cap Ancestors(commits, b)
    IN  IF common = {} THEN 0 ELSE SetMax(common)

HeadCommit(g) == IF g.head = Detached THEN g.detachedAt ELSE g.branches[g.head]

TreeOf(g, c) == IF c = 0 THEN {} ELSE g.commits[c].tree

HeadTree(g) == TreeOf(g, HeadCommit(g))

\* What a command gives back: ok = FALSE is a non-zero exit (execSync throws).
Res(ok, out, g) == [ok |-> ok, out |-> out, git |-> g]
Fails(g) == Res(FALSE, <<>>, g)

\* envOk = FALSE stands for a failure from outside the model (network, disk,
\* permissions, a hook): the command exits non-zero and changes nothing.
Usable(g, envOk) == envOk /\ g.inWorkTree

\* git rev-parse --abbrev-ref HEAD
GitAbbrevRefHead(g, envOk) ==
    IF Usable(g, envOk) /\ HeadCommit(g) # 0 THEN Res(TRUE, g.head, g) ELSE Fails(g)

\* git branch --show-current
GitShowCurrent(g, envOk) ==
    IF ~Usable(g, envOk) THEN Fails(g)
    ELSE Res(TRUE, IF g.head = Detached THEN <<>> ELSE g.head, g)

\* git status --porcelain
GitStatusPorcelain(g, envOk) ==
    IF ~Usable(g, envOk) THEN Fails(g)
    ELSE Res(TRUE, IF g.wt # HeadTree(g) \/ g.index # HeadTree(g) THEN <<"M">> ELSE <<>>, g)

\* git remote update
GitRemoteUpdate(g, envOk) ==
    IF ~Usable(g, envOk) THEN Fails(g)
    ELSE Res(TRUE, <<>>, IF g.hasOrigin THEN [g EXCEPT !.tracking = g.remote] ELSE g)

\* git rev-parse HEAD
GitRevParseHead(g, envOk) ==
    IF Usable(g, envOk) /\ HeadCommit(g) # 0 THEN Res(TRUE, HeadCommit(g), g) ELSE Fails(g)

\* git ls-remote --heads origin <pattern>: one line per head on the server whose
\* name is the pattern or ends with /<pattern>
LsRemoteMatches(g, pattern) ==
    {b \in DOMAIN g.remote : g.remote[b] # 0 /\ (b = pattern \/ EndsWith(b, <<"/">> \o pattern))}

GitLsRemote(g, branch, envOk) ==
    IF Usable(g, envOk) /\ g.hasOrigin
    THEN Res(TRUE, IF LsRemoteMatches(g, branch) = {} THEN <<>> ELSE <<"refs">>, g)
    ELSE Fails(g)

\* git rev-parse origin/<branch>
GitRevParseOrigin(g, branch, envOk) ==
    IF Usable(g, envOk) /\ branch \in DOMAIN g.tracking /\ g.tracking[branch] # 0
    THEN Res(TRUE, g.tracking[branch], g)
    ELSE Fails(g)

\* git merge-base HEAD origin/<branch>
GitMergeBase(g, branch, envOk) ==
    IF /\ Usable(g, envOk) /\ HeadCommit(g) # 0
       /\ branch \in DOMAIN g.tracking /\ g.tracking[branch] # 0
       /\ MergeBase(g.commits, HeadCommit(g), g.tracking[branch]) # 0
    THEN Res(TRUE, MergeBase(g.commits, HeadCommit(g), g.tracking[branch]), g)
    ELSE Fails(g)

\* git add -A
GitAddAll(g, envOk) ==
    IF ~Usable(g, envOk) THEN Fails(g) ELSE Res(TRUE, <<>>, [g EXCEPT !.index = g.wt])

\* git commit -m <message>: fails with nothing staged or no identity
GitCommit(g, allowEmpty, envOk) ==
    IF /\ Usable(g, envOk) /\ g.head # Detached
       /\ g.identity.name # <<>> /\ g.identity.email # <<>>
       /\ (allowEmpty \/ g.index # HeadTree(g))
    THEN LET c == [parent |-> HeadCommit(g), author |-> g.identity, tree |-> g.index]
         IN  Res(TRUE, <<>>, [g EXCEPT !.commits = Append(g.commits, c),
                                       !.branches[g.head] = Len(g.commits) + 1])
    ELSE Fails(g)

\* git push [-u] origin <branch>: refused unless it is a fast-forward
GitPush(g, branch, force, envOk) ==
    IF /\ Usable(g, envOk) /\ g.hasOrigin
       /\ branch \in DOMAIN g.branches /\ g.branches[branch] # 0
       /\ (force \/ g.remote[branch] = 0
             \/ g.remote[branch] \in Ancestors(g.commits, g.branches[branch]))
    THEN Res(TRUE, <<>>, [g EXCEPT !.remote[branch] = g.branches[branch],
                                   !.tracking[branch] = g.branches[branch]])
    ELSE Fails(g)

\* git pull origin <branch>: fetches the server's branch and fast-forwards the
\* current one to it, uncommitted changes carried over; refused where the
\* server has no such branch and, as git does unless it is configured to
\* merge or rebase, where the two have diverged.
GitPull(g, branch, envOk) ==
    IF /\ Usable(g, envOk) /\ g.hasOrigin /\ g.head # Detached
       /\ branch \in DOMAIN g.remote /\ g.remote[branch] # 0
    THEN IF g.remote[branch] \in Ancestors(g.commits, HeadCommit(g))
         THEN Res(TRUE, <<>>, [g EXCEPT !.tracking[branch] = g.remote[branch]])
         ELSE IF HeadCommit(g) = 0 \/ HeadCommit(g) \in Ancestors(g.commits, g.remote[branch])
         THEN Res(TRUE, <<>>,
                  [g EXCEPT !.tracking[branch] = g.remote[branch],
                            !.branches[g.head] = g.remote[branch],
                            !.index = TreeOf(g, g.remote[branch]) \cup (g.index \ HeadTree(g)),
                            !.wt = TreeOf(g, g.remote[branch]) \cup (g.wt \ HeadTree(g))])
         ELSE Fails([g EXCEPT !.tracking[branch] = g.remote[branch]])
    ELSE Fails(g)

\* The commit git checkout <branch> goes to: that of the local branch or, for
\* want of one, that of origin/<branch>, from which the branch is then made
\* (0: neither exists).
CheckoutCommit(g, branch) ==
    IF branch \notin DOMAIN g.branches THEN 0
    ELSE IF g.branches[branch] # 0 THEN g.branches[branch]
    ELSE IF g.hasOrigin THEN g.tracking[branch]
    ELSE 0

\* git checkout <branch>: uncommitted changes are carried over
GitCheckout(g, branch, envOk) ==
    IF Usable(g, envOk) /\ CheckoutCommit(g, branch) # 0
    THEN Res(TRUE, <<>>,
             [g EXCEPT !.head = branch,
                       !.branches[branch] = CheckoutCommit(g, branch),
                       !.index = TreeOf(g, CheckoutCommit(g, branch))
                                   \cup (g.index \ HeadTree(g)),
                       !.wt = TreeOf(g, CheckoutCommit(g, branch)) \cup (g.wt \ HeadTree(g))])
    ELSE Fails(g)

\* git checkout -b <branch>
GitCheckoutNew(g, branch, envOk) ==
    IF /\ Usable(g, envOk) /\ HeadCommit(g) # 0
       /\ branch \in DOMAIN g.branches /\ g.branches[branch] = 0
    THEN Res(TRUE, <<>>, [g EXCEPT !.head = branch, !.branches[branch] = HeadCommit(g)])
    ELSE Fails(g)

\* git checkout --orphan <branch>: an unborn branch, index and files kept
GitCheckoutOrphan(g, branch, envOk) ==
    IF Usable(g, envOk) /\ branch \in DOMAIN g.branches /\ g.branches[branch] = 0
    THEN Res(TRUE, <<>>, [g EXCEPT !.head = branch])
    ELSE Fails(g)

\* git branch -D <branch>: never the branch that is checked out
GitBranchDelete(g, branch, envOk) ==
    IF /\ Usable(g, envOk) /\ branch \in DOMAIN g.branches /\ g.branches[branch] # 0
       /\ g.head # branch
    THEN Res(TRUE, <<>>, [g EXCEPT !.branches[branch] = 0])
    ELSE Fails(g)

GitBranchCopy(g, branch, envOk) ==
    IF /\ Usable(g, envOk) /\ g.head # Detached /\ HeadCommit(g) # 0
       /\ branch \in DOMAIN g.branches /\ g.branches[branch] = 0
    THEN Res(TRUE, <<>>, [g EXCEPT !.branches[branch] = HeadCommit(g)])
    ELSE Fails(g)

\* git branch -m <branch>: renames the current branch, refused if the name is taken
GitBranchRename(g, branch, envOk) ==
    IF /\ Usable(g, envOk) /\ g.head # Detached /\ HeadCommit(g) # 0
       /\ branch \in DOMAIN g.branches /\ g.branches[branch] = 0
    THEN Res(TRUE, <<>>, [g EXCEPT !.branches[branch] = HeadCommit(g),
                                   !.branches[g.head] = 0, !.head = branch])
    ELSE Fails(g)

\* git reset --hard <commit>
GitResetHard(g, c, envOk) ==
    IF Usable(g, envOk) /\ c \in 1..Len(g.commits)
    THEN LET g1 == IF g.head = Detached THEN [g EXCEPT !.detachedAt = c]
                   ELSE [g EXCEPT !.branches[g.head] = c]
         IN  Res(TRUE, <<>>, [g1 EXCEPT !.index = TreeOf(g, c), !.wt = TreeOf(g, c)])
    ELSE Fails(g)

\* The commits git log --all lists: those reachable from a branch, from a
\* remote-tracking ref or from HEAD.
RefCommits(g) ==
    {g.branches[b] : b \in DOMAIN g.branches} \cup {g.tracking[b] : b \in DOMAIN g.tracking}
    \cup {HeadCommit(g)}

ReachableFromRefs(g) == UNION {Ancestors(g.commits, c) : c \in RefCommits(g)}

Subject == <<"msg">>

\* %H|%an|%ae|%s
LogLine(g, c) ==
    NatToText(c) \o <<"|">> \o g.commits[c].author.name \o <<"|">>
    \o g.commits[c].author.email \o <<"|">> \o Subject

\* newest first
RECURSIVE LogLines(_, _)
LogLines(g, S) ==
    IF S = {} THEN <<>>
    ELSE <<LogLine(g, SetMax(S))>> \o LogLines(g, S \ {SetMax(S)})

\* git log --pretty=format:"%H|%an|%ae|%s" --all
GitLogAll(g, envOk) ==
    IF ~Usable(g, envOk) THEN Fails(g)
    ELSE Res(TRUE, Join(LogLines(g, ReachableFromRefs(g)), <<NL>>), g)

\* The commit a hash names (0: none).
CommitOfHash(g, hash) ==
    IF \E c \in 1..Len(g.commits) : NatToText(c) = hash
    THEN CHOOSE c \in 1..Len(g.commits) : NatToText(c) = hash
    ELSE 0

\* git init: a new, empty repository in the project root
GitInit(g, envOk) ==
    IF ~envOk THEN Fails(g)
    ELSE Res(TRUE, <<>>, [g EXCEPT !.isRepo = TRUE, !.inWorkTree = TRUE,
                                   !.hasOrigin = FALSE, !.origin = <<>>,
                                   !.branches = [b \in DOMAIN g.branches |-> 0],
                                   !.tracking = [b \in DOMAIN g.tracking |-> 0],
                                   !.remote = [b \in DOMAIN g.remote |-> 0],
                                   !.head = <<"main">>, !.detachedAt = 0, !.index = {}])

\* git config --global user.name / user.email: exits 1 when the key is unset
GitConfigGet(g, key, envOk) ==
    IF envOk /\ g.identity[key] # <<>> THEN Res(TRUE, g.identity[key], g) ELSE Fails(g)

\* git config --global user.name "<value>" / user.email "<value>"
GitConfigSet(g, key, value, envOk) ==
    IF envOk THEN Res(TRUE, <<>>, [g EXCEPT !.identity[key] = value]) ELSE Fails(g)

\* git remote get-url origin
GitRemoteGetUrl(g, envOk) ==
    IF Usable(g, envOk) /\ g.hasOrigin THEN Res(TRUE, g.origin, g) ELSE Fails(g)

\* git remote remove origin
GitRemoteRemove(g, envOk) ==
    IF Usable(g, envOk) /\ g.hasOrigin
    THEN Res(TRUE, <<>>, [g EXCEPT !.hasOrigin = FALSE, !.origin = <<>>,
                                   !.tracking = [b \in DOMAIN g.tracking |-> 0]])
    ELSE Fails(g)

\* git rev-parse --verify HEAD^{commit}
GitVerifyHead(g, envOk) ==
    IF Usable(g, envOk) /\ HeadCommit(g) # 0 THEN Res(TRUE, <<>>, g) ELSE Fails(g)

\* --------------------------------------------------------------------- gh
\* What a gh command gives back: as Res, with what it leaves of GitHub (e).
GhRes(ok, out, g, e) == [ok |-> ok, out |-> out, git |-> g, env |-> e]

\* command -v gh
checkCommandExists(e) == e.ghInstalled

\* gh auth status
GhAuthStatus(g, e, envOk) == GhRes(envOk /\ e.ghInstalled /\ e.ghAuthed, <<>>, g, e)

\* gh api user
GhApiUser(g, e, envOk) == GhRes(envOk /\ e.ghInstalled /\ e.ghAuthed, <<>>, g, e)

\* gh api user --jq .login
GhApiLogin(g, e, envOk) ==
    IF envOk /\ e.ghInstalled /\ e.ghAuthed THEN GhRes(TRUE, e.ghUser.login, g, e)
    ELSE GhRes(FALSE, <<>>, g, e)

\* gh auth login --scopes "repo,workflow,delete_repo"
GhAuthLogin(g, e, envOk) ==
    IF envOk /\ e.ghInstalled THEN GhRes(TRUE, <<>>, g, [e EXCEPT !.ghAuthed = TRUE])
    ELSE GhRes(FALSE, <<>>, g, e)

\* gh auth status as opDeleteRemoteRepo reads it: what runCommand returns is
\* the standard output, on which gh lists the token scopes or (writing them
\* to the standard error) does not: onStdout.
GhAuthStatusOut(g, e, onStdout, envOk) ==
    IF ~(envOk /\ e.ghInstalled /\ e.ghAuthed) THEN GhRes(FALSE, <<>>, g, e)
    ELSE IF ~onStdout THEN GhRes(TRUE, <<>>, g, e)
    ELSE IF e.deleteScope
    THEN GhRes(TRUE, <<"Token scopes:", SP, "repo", ",", SP, "delete_repo">>, g, e)
    ELSE GhRes(TRUE, <<"Token scopes:", SP, "repo">>, g, e)

\* <owner>/<name> as gh reads the argument: the two parts, or none.
RepoOfName(fullName) ==
    IF Len(Split(fullName, "/")) = 2
    THEN {<<Split(fullName, "/")[1], Split(fullName, "/")[2]>>}
    ELSE {}

\* gh repo view <fullName>
GhRepoViewName(g, e, fullName, envOk) ==
    GhRes(envOk /\ e.ghInstalled /\ e.ghAuthed /\ RepoOfName(fullName) \cap e.ghRepos # {},
          <<>>, g, e)

\* gh repo delete <fullName> --yes: needs the delete_repo scope
GhRepoDelete(g, e, fullName, envOk) ==
    IF /\ envOk /\ e.ghInstalled /\ e.ghAuthed /\ e.deleteScope
       /\ RepoOfName(fullName) \cap e.ghRepos # {}
    THEN GhRes(TRUE, <<>>, g, [e EXCEPT !.ghRepos = @ \ RepoOfName(fullName)])
    ELSE GhRes(FALSE, <<>>, g, e)

\* gh repo view <owner>/<name>
GhRepoView(g, e, owner, name, envOk) ==
    GhRes(envOk /\ e.ghInstalled /\ e.ghAuthed /\ <<owner, name>> \in e.ghRepos, <<>>, g, e)

\* gh repo create <owner>/<name> --source=. --remote=origin --push: the
\* repository is made on GitHub, then origin is added, then HEAD's branch is
\* pushed; a step that fails leaves what the steps before it did.
GhRepoCreate(g, e, owner, name, envOk) ==
    IF ~(envOk /\ Usable(g, TRUE) /\ e.ghInstalled /\ e.ghAuthed) \/ owner = <<>>
          \/ <<owner, name>> \in e.ghRepos
    THEN GhRes(FALSE, <<>>, g, e)
    ELSE LET e1 == [e EXCEPT !.ghRepos = @ \cup {<<owner, name>>}]
             g1 == [g EXCEPT !.hasOrigin = TRUE, !.origin = GithubUrl(owner, name),
                             !.tracking = [b \in DOMAIN g.tracking |-> 0],
                             !.remote = [b \in DOMAIN g.remote |-> 0]]
         IN  IF g.hasOrigin THEN GhRes(FALSE, <<>>, g, e1)
             ELSE IF g.head = Detached \/ HeadCommit(g) = 0 THEN GhRes(FALSE, <<>>, g1, e1)
             ELSE GhRes(TRUE, <<>>, [g1 EXCEPT !.tracking[g.head] = HeadCommit(g),
                                               !.remote[g.head] = HeadCommit(g)], e1)

\* ------------------------------------------------------------------ state
VARIABLES
    pc,          \* where the running invocation stands
    stack,       \* the labels the running calls return to
    args,        \* process.argv.slice(2): [cmd, msg]
    menuAnswers, \* what the user will type at the menu prompt
    isOpMode,    \* the script runs from <project>/backupTool (configFilePath is set)
    configFile,  \* backupTool/backup-config.json: [exists, content]
    gitignore,   \* <project>/.gitignore: [exists, content]
    git,         \* the repository and its remote
    mem,         \* the local variables of the running functions
    ret,         \* what the last call gave back: [thrown, b, s]
    log,         \* the external commands run and the prompts asked, in order
    called,      \* the functions entered, in order
    env,         \* outside the repository: the directory name, the clock, GitHub and gh
    cfgOut,      \* what the round trip's readConfig returned
    giRuns       \* the runs of updateProjectGitignore so far: [before, after, io]

vars == <<pc, stack, args, menuAnswers, isOpMode, configFile, gitignore, git, env, mem, ret,
          log, called, cfgOut, giRuns>>

NoStatus == [hasChanges |-> FALSE, isRepo |-> FALSE, sync |-> "unknown",
             localHash |-> 0, remoteHash |-> 0, baseHash |-> 0]

NoMem == [config |-> Null, currentBranch |-> <<>>, previousBranch |-> <<>>,
          newBranchName |-> <<>>, branchName |-> <<>>, commitMessage |-> <<>>,
          status |-> NoStatus, freshConfig |-> Null, userName |-> <<>>, userEmail |-> <<>>,
          remoteUrl |-> <<>>, repoFullName |-> <<>>, repoName |-> <<>>, counter |-> 0,
          currentUserCommits |-> <<>>, oldUserCommits |-> <<>>]

NoRet == [thrown |-> FALSE, b |-> FALSE, s |-> <<>>]
Returned(b, s) == [thrown |-> FALSE, b |-> b, s |-> s]
Thrown == [thrown |-> TRUE, b |-> FALSE, s |-> <<>>]

NoArgs == [cmd |-> "", msg |-> <<>>]

\* The account gh is logged in to, as gh api user reports it.
Account(login, name, email) == [login |-> login, name |-> name, email |-> email]

\* env: basename is path.basename(projectRoot); now is what
\* getFormattedTimestamp() returns; ghInstalled says whether the gh command
\* exists, ghAuthed whether it is logged in, and ghUser to which account;
\* ghRepos are the <<owner, name>> that gh repo view finds on GitHub;
\* toolDir says whether <project>/backupTool exists and toolScript whether
\* backupTool.js is in it (both hold wherever the tool runs from there);
\* deleteScope says whether gh's token has the delete_repo scope.
Env(basename, ghInstalled, ghAuthed, ghUser, ghRepos) ==
    [basename |-> basename, now |-> <<"2025-01-01", SP, "00:00:00">>,
     ghInstalled |-> ghInstalled, ghAuthed |-> ghAuthed, ghUser |-> ghUser,
     ghRepos |-> ghRepos, toolDir |-> TRUE, toolScript |-> TRUE, deleteScope |-> TRUE]

Alice == Account(<<"alice">>, <<"Alice">>, <<"alice@mail">>)

QuietEnv == Env(<<"proj">>, TRUE, TRUE, Alice, {})

Entry(cmd, arg, ok) == [cmd |-> cmd, arg |-> arg, ok |-> ok]

\* Running an external command whose outcome is r.
Ran(r, cmd, arg) == git' = r.git /\ log' = Append(log, Entry(cmd, arg, r.ok))

\* Running a gh command whose outcome is r.
RanGh(r, cmd, arg) ==
    git' = r.git /\ env' = r.env /\ log' = Append(log, Entry(cmd, arg, r.ok))

\* askQuestion(query) answered with ans (already trimmed).
Asked(query, ans) == log' = Append(log, Entry(query, ans, TRUE))

Call(fn, entry, back) ==
    pc' = entry /\ stack' = <<back>> \o stack /\ called' = Append(called, fn)

Return == pc' = Head(stack) /\ stack' = Tail(stack)

ToLower(c) ==
    IF c = "Y" THEN "y" ELSE IF c = "N" THEN "n"
    ELSE IF c = "GitHub Backup User" THEN "github backup user"
    ELSE c
LowerCase(s) == [i \in 1..Len(s) |-> ToLower(s[i])]
Answers == {<<"y">>, <<"Y">>, <<"y", "e", "s">>, <<"n">>, <<>>}

Truthy(cfg, key) ==
    /\ ~cfg.null /\ HasKey(cfg.obj, key)
    /\ LET e == Get(cfg.obj, key)
       IN  (e.t = "str" => e.s # <<>>) /\ (e.t = "num" => e.n # 0)

ProjectName == <<"projectName">>
GithubUsername == <<"githubUsername">>

\* -------------------------------------------------- getCurrentGitBranch
gcbAbbrevRef ==
    /\ pc = "gcb_abbrev"
    /\ \E envOk \in BOOLEAN :
         LET r == GitAbbrevRefHead(git, envOk) IN
         /\ Ran(r, "git rev-parse --abbrev-ref HEAD", <<>>)
         /\ IF ~r.ok THEN ret' = Thrown /\ Return
            ELSE IF r.out = Detached
            THEN pc' = "gcb_show" /\ UNCHANGED <<ret, stack>>
            ELSE ret' = Returned(TRUE, r.out) /\ Return
    /\ UNCHANGED <<args, menuAnswers, isOpMode, env, configFile, gitignore, mem, called,
                   cfgOut, giRuns>>

gcbShowCurrent ==
    /\ pc = "gcb_show"
    /\ \E envOk \in BOOLEAN :
         LET r == GitShowCurrent(git, envOk) IN
         /\ Ran(r, "git branch --show-current", <<>>)
         /\ ret' = IF r.ok /\ Trim(r.out) # <<>> THEN Returned(TRUE, Trim(r.out)) ELSE Thrown
    /\ Return
    /\ UNCHANGED <<args, menuAnswers, isOpMode, env, configFile, gitignore, mem, called,
                   cfgOut, giRuns>>

getCurrentGitBranch == gcbAbbrevRef \/ gcbShowCurrent

\* ---------------------------------------------------------- getGitStatus
\* Classify as it would be with behind and ahead exchanged.
ClassifySwapped(localHash, remoteHash, baseHash) ==
    IF localHash = remoteHash THEN "uptodate"
    ELSE IF localHash = baseHash THEN "ahead"
    ELSE IF remoteHash = baseHash THEN "behind"
    ELSE "diverged"

\* The decision table of getGitStatus.
Classify(localHash, remoteHash, baseHash) ==
    IF localHash = remoteHash THEN "uptodate"
    ELSE IF localHash = baseHash THEN "behind"
    ELSE IF remoteHash = baseHash THEN "ahead"
    ELSE "diverged"

\* gsCaught as it would be if the catch block left the sync value alone.
gsCaughtSilent == Return /\ UNCHANGED mem

\* The catch block of getGitStatus.
gsCaught == mem' = [mem EXCEPT !.status.sync = "error"] /\ Return

gsStart ==
    /\ pc = "gs_start"
    /\ mem' = [mem EXCEPT !.status = [NoStatus EXCEPT !.isRepo = git.isRepo]]
    /\ IF ~git.isRepo THEN Return ELSE pc' = "gs_status" /\ UNCHANGED stack
    /\ UNCHANGED <<args, menuAnswers, isOpMode, env, configFile, gitignore, git, ret, log,
                   called, cfgOut, giRuns>>

gsStatusPorcelain ==
    /\ pc = "gs_status"
    /\ \E envOk \in BOOLEAN :
         LET r == GitStatusPorcelain(git, envOk) IN
         /\ Ran(r, "git status --porcelain", <<>>)
         /\ IF r.ok
            THEN /\ mem' = [mem EXCEPT !.status.hasChanges = Len(r.out) > 0]
                 /\ pc' = "gs_update" /\ UNCHANGED stack
            ELSE gsCaught
    /\ UNCHANGED <<args, menuAnswers, isOpMode, env, configFile, gitignore, ret, called,
                   cfgOut, giRuns>>

gsRemoteUpdate ==
    /\ pc = "gs_update"
    /\ \E envOk \in BOOLEAN :
         LET r == GitRemoteUpdate(git, envOk) IN
         /\ Ran(r, "git remote update", <<>>)
         /\ IF r.ok THEN pc' = "gs_local" /\ UNCHANGED <<mem, stack>> ELSE gsCaught
    /\ UNCHANGED <<args, menuAnswers, isOpMode, env, configFile, gitignore, ret, called,
                   cfgOut, giRuns>>

gsRevParseHead ==
    /\ pc = "gs_local"
    /\ \E envOk \in BOOLEAN :
         LET r == GitRevParseHead(git, envOk) IN
         /\ Ran(r, "git rev-parse HEAD", <<>>)
         /\ IF r.ok
            THEN /\ mem' = [mem EXCEPT !.status.localHash = r.out]
                 /\ pc' = "gs_lsremote" /\ UNCHANGED stack
            ELSE gsCaught
    /\ UNCHANGED <<args, menuAnswers, isOpMode, env, configFile, gitignore, ret, called,
                   cfgOut, giRuns>>

\* RemoteBranchMissing as it would be with the test inverted.
RemoteBranchMissingInverted(out) == out # <<>>

\* !remoteBranchExistsResult: the listing came back empty.
RemoteBranchMissing(out) == out = <<>>

gsLsRemote ==
    /\ pc = "gs_lsremote"
    /\ \E envOk \in BOOLEAN :
         LET r == GitLsRemote(git, mem.branchName, envOk) IN
         /\ Ran(r, "git ls-remote --heads origin", mem.branchName)
         /\ IF ~r.ok THEN gsCaught
            ELSE IF RemoteBranchMissing(r.out)
            THEN mem' = [mem EXCEPT !.status.sync = "no_remote"] /\ Return
            ELSE pc' = "gs_remote" /\ UNCHANGED <<mem, stack>>
    /\ UNCHANGED <<args, menuAnswers, isOpMode, env, configFile, gitignore, ret, called,
                   cfgOut, giRuns>>

gsRevParseOrigin ==
    /\ pc = "gs_remote"
    /\ \E envOk \in BOOLEAN :
         LET r == GitRevParseOrigin(git, mem.branchName, envOk) IN
         /\ Ran(r, "git rev-parse origin/", mem.branchName)
         /\ IF r.ok
            THEN /\ mem' = [mem EXCEPT !.status.remoteHash = r.out]
                 /\ pc' = "gs_base" /\ UNCHANGED stack
            ELSE gsCaught
    /\ UNCHANGED <<args, menuAnswers, isOpMode, env, configFile, gitignore, ret, called,
                   cfgOut, giRuns>>

gsMergeBase ==
    /\ pc = "gs_base"
    /\ \E envOk \in BOOLEAN :
         LET r == GitMergeBase(git, mem.branchName, envOk) IN
         /\ Ran(r, "git merge-base HEAD origin/", mem.branchName)
         /\ IF r.ok
            THEN /\ mem' = [mem EXCEPT
                        !.status.baseHash = r.out,
                        !.status.sync = Classify(mem.status.localHash,
                                                 mem.status.remoteHash, r.out)]
                 /\ Return
            ELSE gsCaught
    /\ UNCHANGED <<args, menuAnswers, isOpMode, env, configFile, gitignore, ret, called,
                   cfgOut, giRuns>>

getGitStatus ==
    \/ gsStart \/ gsStatusPorcelain \/ gsRemoteUpdate \/ gsRevParseHead
    \/ gsLsRemote \/ gsRevParseOrigin \/ gsMergeBase

\* ----------------------------------------------------- displaySyncStatus
\* displaySyncStatus(gitStatus, branchName, operationType): the push of the
\* cases ahead and no_remote, whose failure is caught.
displaySyncStatusEager ==
    /\ pc = "ds_start"
    /\ IF mem.status.sync \in {"ahead", "diverged"}
       THEN \E envOk \in BOOLEAN :
              Ran(GitPush(git, mem.branchName, FALSE, envOk), "git push origin", mem.branchName)
       ELSE IF mem.status.sync = "no_remote"
       THEN \E envOk \in BOOLEAN :
              Ran(GitPush(git, mem.branchName, FALSE, envOk), "git push -u origin", mem.branchName)
       ELSE UNCHANGED <<git, log>>
    /\ Return
    /\ UNCHANGED <<args, menuAnswers, isOpMode, env, configFile, gitignore, mem, ret, called,
                   cfgOut, giRuns>>

displaySyncStatus ==
    /\ pc = "ds_start"
    /\ IF mem.status.sync = "ahead"
       THEN \E envOk \in BOOLEAN :
              Ran(GitPush(git, mem.branchName, FALSE, envOk), "git push origin", mem.branchName)
       ELSE IF mem.status.sync = "no_remote"
       THEN \E envOk \in BOOLEAN :
              Ran(GitPush(git, mem.branchName, FALSE, envOk), "git push -u origin", mem.branchName)
       ELSE UNCHANGED <<git, log>>
    /\ Return
    /\ UNCHANGED <<args, menuAnswers, isOpMode, env, configFile, gitignore, mem, ret, called,
                   cfgOut, giRuns>>

\* --------------------------------------------------------- commitAndPush
\* cpAdd as it would be if a failed git add did not end commitAndPush.
cpAddCarryOn ==
    /\ pc = "cp_add"
    /\ \E envOk \in BOOLEAN : Ran(GitAddAll(git, envOk), "git add -A", <<>>)
    /\ pc' = "cp_commit"
    /\ UNCHANGED <<ret, stack, args, menuAnswers, isOpMode, env, configFile, gitignore, mem, called,
                   cfgOut, giRuns>>

cpAdd ==
    /\ pc = "cp_add"
    /\ \E envOk \in BOOLEAN :
         LET r == GitAddAll(git, envOk) IN
         /\ Ran(r, "git add -A", <<>>)
         /\ IF r.ok THEN pc' = "cp_commit" /\ UNCHANGED <<ret, stack>>
            ELSE ret' = Returned(FALSE, <<>>) /\ Return
    /\ UNCHANGED <<args, menuAnswers, isOpMode, env, configFile, gitignore, mem, called,
                   cfgOut, giRuns>>

cpCommit ==
    /\ pc = "cp_commit"
    /\ \E envOk \in BOOLEAN :
         LET r == GitCommit(git, FALSE, envOk) IN
         /\ Ran(r, "git commit -m", mem.commitMessage)
         /\ IF r.ok THEN pc' = "cp_push" /\ UNCHANGED <<ret, stack>>
            ELSE ret' = Returned(FALSE, <<>>) /\ Return
    /\ UNCHANGED <<args, menuAnswers, isOpMode, env, configFile, gitignore, mem, called,
                   cfgOut, giRuns>>

cpPush ==
    /\ pc = "cp_push"
    /\ \E envOk \in BOOLEAN :
         LET r == GitPush(git, mem.branchName, FALSE, envOk) IN
         /\ Ran(r, "git push origin", mem.branchName)
         /\ ret' = Returned(r.ok, <<>>)
    /\ Return
    /\ UNCHANGED <<args, menuAnswers, isOpMode, env, configFile, gitignore, mem, called,
                   cfgOut, giRuns>>

commitAndPush == cpAdd \/ cpCommit \/ cpPush

\* --------------------------------------------------------- opQuickBackup
ConfigUsableIfRead(cfg, key) == ~cfg.null

\* !(!config || !config.<key>)
ConfigUsable(cfg, key) == ~cfg.null /\ Truthy(cfg, key)

QuickBackupMessage == <<"Quick backup:", SP, "timestamp">>

qbStart ==
    /\ pc = "qb_start"
    /\ \E ioOk \in BOOLEAN :
         LET config == readConfig(configFile, isOpMode, ioOk) IN
         /\ mem' = [mem EXCEPT !.config = config]
         /\ IF ConfigUsable(config, ProjectName)
            THEN Call("getCurrentGitBranch", "gcb_abbrev", "qb_branch")
            ELSE pc' = "exit" /\ UNCHANGED <<stack, called>>
    /\ UNCHANGED <<args, menuAnswers, isOpMode, env, configFile, gitignore, git, ret, log,
                   cfgOut, giRuns>>

qbBranch ==
    /\ pc = "qb_branch"
    /\ IF ret.thrown
       THEN pc' = "exit" /\ UNCHANGED <<stack, called, mem>>
       ELSE /\ mem' = [mem EXCEPT !.currentBranch = ret.s, !.branchName = ret.s]
            /\ Call("getGitStatus", "gs_start", "qb_status")
    /\ UNCHANGED <<args, menuAnswers, isOpMode, env, configFile, gitignore, git, ret, log,
                   cfgOut, giRuns>>

qbStatusInSyncOnly ==
    /\ pc = "qb_status"
    /\ IF ~mem.status.isRepo
       THEN pc' = "exit" /\ UNCHANGED <<stack, called, mem>>
       ELSE IF ~mem.status.hasChanges \/ mem.status.sync \in {"behind", "diverged", "error"}
       THEN Call("displaySyncStatus", "ds_start", "exit") /\ UNCHANGED mem
       ELSE /\ mem' = [mem EXCEPT !.commitMessage = QuickBackupMessage]
            /\ Call("commitAndPush", "cp_add", "exit")
    /\ UNCHANGED <<args, menuAnswers, isOpMode, env, configFile, gitignore, git, ret, log,
                   cfgOut, giRuns>>

qbStatus ==
    /\ pc = "qb_status"
    /\ IF ~mem.status.isRepo
       THEN pc' = "exit" /\ UNCHANGED <<stack, called, mem>>
       ELSE IF ~mem.status.hasChanges
       THEN Call("displaySyncStatus", "ds_start", "exit") /\ UNCHANGED mem
       ELSE /\ mem' = [mem EXCEPT !.commitMessage = QuickBackupMessage]
            /\ Call("commitAndPush", "cp_add", "exit")
    /\ UNCHANGED <<args, menuAnswers, isOpMode, env, configFile, gitignore, git, ret, log,
                   cfgOut, giRuns>>

opQuickBackup == qbStart \/ qbBranch \/ qbStatus

\* --------------------------------------------------- opCommitWithMessage
Messages == {<<>>, <<SP>>, <<"fix">>}

cmStart ==
    /\ pc = "cm_start"
    /\ \E ioOk \in BOOLEAN :
         LET config == readConfig(configFile, isOpMode, ioOk) IN
         /\ mem' = [mem EXCEPT !.config = config]
         /\ IF ConfigUsable(config, ProjectName)
            THEN Call("getCurrentGitBranch", "gcb_abbrev", "cm_branch")
            ELSE pc' = "exit" /\ UNCHANGED <<stack, called>>
    /\ UNCHANGED <<args, menuAnswers, isOpMode, env, configFile, gitignore, git, ret, log,
                   cfgOut, giRuns>>

cmBranch ==
    /\ pc = "cm_branch"
    /\ IF ret.thrown
       THEN pc' = "exit" /\ UNCHANGED <<stack, called, mem, log>>
       ELSE IF Trim(mem.commitMessage) # <<>>
       THEN /\ mem' = [mem EXCEPT !.currentBranch = ret.s, !.branchName = ret.s]
            /\ Call("getGitStatus", "gs_start", "cm_status")
            /\ UNCHANGED log
       ELSE \E typed \in Messages :
            /\ Asked("Please enter your commit message: ", Trim(typed))
            /\ mem' = [mem EXCEPT !.currentBranch = ret.s, !.branchName = ret.s,
                                  !.commitMessage = Trim(typed)]
            /\ IF Trim(typed) = <<>>
               THEN pc' = "exit" /\ UNCHANGED <<stack, called>>
               ELSE Call("getGitStatus", "gs_start", "cm_status")
    /\ UNCHANGED <<args, menuAnswers, isOpMode, env, configFile, gitignore, git, ret,
                   cfgOut, giRuns>>

\* DeclinesEmptyCommit as it would be with the negation dropped.
DeclinesEmptyCommitInverted(commitEmpty) == StartsWith(LowerCase(commitEmpty), <<"y">>)

\* !commitEmpty.toLowerCase().startsWith('y')
DeclinesEmptyCommit(commitEmpty) == ~StartsWith(LowerCase(commitEmpty), <<"y">>)

cmStatus ==
    /\ pc = "cm_status"
    /\ IF ~mem.status.isRepo
       THEN pc' = "exit" /\ UNCHANGED <<stack, called, log>>
       ELSE IF mem.status.hasChanges
       THEN Call("commitAndPush", "cp_add", "exit") /\ UNCHANGED log
       ELSE \E commitEmpty \in Answers :
            /\ Asked("Do you want to create an empty commit anyway? (Y/N): ", commitEmpty)
            /\ IF DeclinesEmptyCommit(commitEmpty)
               THEN Call("displaySyncStatus", "ds_start", "exit")
               ELSE Call("commitAndPush", "cp_add", "exit")
    /\ UNCHANGED <<args, menuAnswers, isOpMode, env, configFile, gitignore, git, mem, ret,
                   cfgOut, giRuns>>

opCommitWithMessage == cmStart \/ cmBranch \/ cmStatus

\* --------------------------------------------------- opBackupToNewBranch
BranchNameAnswers == {<<>>, <<"nb">>, <<"my", SP, "nb">>, <<"feature">>}

\* replace(/\s+/g, '-')
RECURSIVE DashSpaces(_)
DashSpaces(s) ==
    IF s = <<>> THEN <<>>
    ELSE IF IsSpace(s[1])
    THEN <<"-">> \o DashSpaces(TrimStart(s))
    ELSE <<s[1]>> \o DashSpaces(Tail(s))

DefaultBranchMessage(newBranchName) ==
    <<"Initial commit for new branch", SP>> \o newBranchName

nbStart ==
    /\ pc = "nb_start"
    /\ \E ioOk \in BOOLEAN :
         LET config == readConfig(configFile, isOpMode, ioOk) IN
         /\ mem' = [mem EXCEPT !.config = config]
         /\ IF ConfigUsable(config, ProjectName)
            THEN Call("getCurrentGitBranch", "gcb_abbrev", "nb_branch")
            ELSE pc' = "exit" /\ UNCHANGED <<stack, called>>
    /\ UNCHANGED <<args, menuAnswers, isOpMode, env, configFile, gitignore, git, ret, log,
                   cfgOut, giRuns>>

nbBranch ==
    /\ pc = "nb_branch"
    /\ IF ret.thrown
       THEN pc' = "exit" /\ UNCHANGED <<mem, log>>
       ELSE \E typed \in BranchNameAnswers :
            /\ Asked("Enter the name for the new backup branch: ", typed)
            /\ mem' = [mem EXCEPT !.previousBranch = ret.s,
                                  !.newBranchName = DashSpaces(Trim(typed))]
            /\ pc' = IF Trim(typed) = <<>> THEN "exit" ELSE "nb_checkout"
    /\ UNCHANGED <<stack, args, menuAnswers, isOpMode, env, configFile, gitignore, git, ret,
                   called, cfgOut, giRuns>>

nbCheckoutNew ==
    /\ pc = "nb_checkout"
    /\ \E envOk \in BOOLEAN :
         LET r == GitCheckoutNew(git, mem.newBranchName, envOk) IN
         /\ Ran(r, "git checkout -b", mem.newBranchName)
         /\ pc' = IF r.ok THEN "nb_commit" ELSE "nb_recover"
    /\ UNCHANGED <<stack, args, menuAnswers, isOpMode, env, configFile, gitignore, mem, ret,
                   called, cfgOut, giRuns>>

nbCommit ==
    /\ pc = "nb_commit"
    /\ \E typed \in Messages :
         /\ Asked("Enter commit message for the new branch: ", Trim(typed))
         /\ mem' = [mem EXCEPT
                !.commitMessage = IF Trim(typed) # <<>> THEN Trim(typed)
                                  ELSE DefaultBranchMessage(mem.newBranchName),
                !.branchName = mem.newBranchName]
    /\ Call("commitAndPush", "cp_add", "nb_after")
    /\ UNCHANGED <<args, menuAnswers, isOpMode, env, configFile, gitignore, git, ret,
                   cfgOut, giRuns>>

\* nbAfter as it would be without the clean-up after a failed commitAndPush.
nbAfterNoCleanup ==
    /\ pc = "nb_after"
    /\ pc' = "exit"
    /\ UNCHANGED <<stack, args, menuAnswers, isOpMode, env, configFile, gitignore, git, mem,
                   ret, log, called, cfgOut, giRuns>>

nbAfter ==
    /\ pc = "nb_after"
    /\ pc' = IF ret.b THEN "exit" ELSE "nb_back"
    /\ UNCHANGED <<stack, args, menuAnswers, isOpMode, env, configFile, gitignore, git, mem,
                   ret, log, called, cfgOut, giRuns>>

nbBack ==
    /\ pc = "nb_back"
    /\ \E envOk \in BOOLEAN :
         LET r == GitCheckout(git, mem.previousBranch, envOk) IN
         /\ Ran(r, "git checkout", mem.previousBranch)
         /\ pc' = IF r.ok THEN "nb_delete" ELSE "nb_recover"
    /\ UNCHANGED <<stack, args, menuAnswers, isOpMode, env, configFile, gitignore, mem, ret,
                   called, cfgOut, giRuns>>

nbDelete ==
    /\ pc = "nb_delete"
    /\ \E envOk \in BOOLEAN :
         LET r == GitBranchDelete(git, mem.newBranchName, envOk) IN
         /\ Ran(r, "git branch -D", mem.newBranchName)
         /\ pc' = IF r.ok THEN "exit" ELSE "nb_recover"
    /\ UNCHANGED <<stack, args, menuAnswers, isOpMode, env, configFile, gitignore, mem, ret,
                   called, cfgOut, giRuns>>

\* The catch block: one more checkout of the previous branch.
nbRecover ==
    /\ pc = "nb_recover"
    /\ \E envOk \in BOOLEAN :
         Ran(GitCheckout(git, mem.previousBranch, envOk), "git checkout", mem.previousBranch)
    /\ pc' = "exit"
    /\ UNCHANGED <<stack, args, menuAnswers, isOpMode, env, configFile, gitignore, mem, ret,
                   called, cfgOut, giRuns>>

opBackupToNewBranch ==
    nbStart \/ nbBranch \/ nbCheckoutNew \/ nbCommit \/ nbAfter \/ nbBack \/ nbDelete \/ nbRecover

\* ------------------------------------------------------- checkRemoteSync
rsStart ==
    /\ pc = "rs_start"
    /\ Call("getCurrentGitBranch", "gcb_abbrev", "rs_branch")
    /\ UNCHANGED <<args, menuAnswers, isOpMode, env, configFile, gitignore, git, mem, ret, log,
                   cfgOut, giRuns>>

rsBranch ==
    /\ pc = "rs_branch"
    /\ IF ret.thrown
       THEN pc' = "exit" /\ UNCHANGED <<stack, called, mem>>
       ELSE /\ mem' = [mem EXCEPT !.currentBranch = ret.s, !.branchName = ret.s]
            /\ Call("getGitStatus", "gs_start", "rs_status")
    /\ UNCHANGED <<args, menuAnswers, isOpMode, env, configFile, gitignore, git, ret, log,
                   cfgOut, giRuns>>

rsStatus ==
    /\ pc = "rs_status"
    /\ IF ~mem.status.isRepo
       THEN pc' = "exit" /\ UNCHANGED <<stack, called>>
       ELSE Call("displaySyncStatus", "ds_start", "exit")
    /\ UNCHANGED <<args, menuAnswers, isOpMode, env, configFile, gitignore, git, mem, ret, log,
                   cfgOut, giRuns>>

checkRemoteSync == rsStart \/ rsBranch \/ rsStatus

\* ------------------------------------------------------ opShowBackupMenu
MenuTargetNoCancel(choice) ==
    IF choice = "1" THEN "cm_start"
    ELSE IF choice = "2" THEN "nb_start"
    ELSE IF choice = "3" THEN "rs_start"
    ELSE IF choice = "4" THEN "pl_start"
    ELSE IF choice = "5" THEN "ch_start"
    ELSE IF choice = "6" THEN "ca_start"
    ELSE "menu"

MenuTarget(choice) ==
    IF choice = "1" THEN "cm_start"
    ELSE IF choice = "2" THEN "nb_start"
    ELSE IF choice = "3" THEN "rs_start"
    ELSE IF choice = "4" THEN "pl_start"
    ELSE IF choice = "5" THEN "ch_start"
    ELSE IF choice = "6" THEN "ca_start"
    ELSE IF choice = "0" THEN "exit"
    ELSE "menu"

MenuHandler(choice) ==
    IF choice = "1" THEN "opCommitWithMessage"
    ELSE IF choice = "2" THEN "opBackupToNewBranch"
    ELSE IF choice = "3" THEN "checkRemoteSync"
    ELSE IF choice = "4" THEN "pullChanges"
    ELSE IF choice = "5" THEN "opCleanOldUserCommits"
    ELSE IF choice = "6" THEN "opCleanAllCommits"
    ELSE IF choice = "0" THEN "cancel"
    ELSE "opShowBackupMenu"

opShowBackupMenu ==
    /\ pc = "menu"
    /\ menuAnswers # <<>>
    /\ LET choice == Head(menuAnswers) IN
         /\ Asked("Please choose an option (0-6): ", <<choice>>)
         /\ pc' = MenuTarget(choice)
         /\ called' = Append(called, MenuHandler(choice))
         /\ mem' = [mem EXCEPT !.commitMessage = <<>>]
    /\ menuAnswers' = Tail(menuAnswers)
    /\ UNCHANGED <<stack, args, isOpMode, env, configFile, gitignore, git, ret, cfgOut, giRuns>>

\* --------------------------------------------------- handleOperationMode
CommandTargetNoAlias(command) ==
    IF command = "--init" THEN "in_start"
    ELSE IF command = "--qbackup" THEN "qb_start"
    ELSE IF command = "--commit" THEN "cm_start"
    ELSE IF command = "--menu" THEN "menu"
    ELSE IF command = "--clean-history" THEN "ch_start"
    ELSE IF command = "--clean-all" THEN "ca_start"
    ELSE IF command = "--delete-repo" THEN "dr_start"
    ELSE "exit"

CommandTarget(command) ==
    IF command = "--init" THEN "in_start"
    ELSE IF command = "--qbackup" THEN "qb_start"
    ELSE IF command = "--commit" THEN "cm_start"
    ELSE IF command = "--menu" THEN "menu"
    ELSE IF command = "--clean-history" THEN "ch_start"
    ELSE IF command = "--clean-all" THEN "ca_start"
    ELSE IF command \in {"--delete-repo", "--delrepo"} THEN "dr_start"
    ELSE "exit"

CommandHandler(command) ==
    IF command = "--init" THEN "opInitBackup"
    ELSE IF command = "--qbackup" THEN "opQuickBackup"
    ELSE IF command = "--commit" THEN "opCommitWithMessage"
    ELSE IF command = "--menu" THEN "opShowBackupMenu"
    ELSE IF command = "--clean-history" THEN "opCleanOldUserCommits"
    ELSE IF command = "--clean-all" THEN "opCleanAllCommits"
    ELSE IF command \in {"--delete-repo", "--delrepo"} THEN "opDeleteRemoteRepo"
    ELSE "showOperationMenu"

\* chdirOk = FALSE is process.chdir(projectRoot) throwing.
handleOperationMode ==
    /\ pc = "main"
    /\ isOpMode
    /\ \E chdirOk \in BOOLEAN :
         IF chdirOk
         THEN /\ pc' = CommandTarget(args.cmd)
              /\ called' = Append(called, CommandHandler(args.cmd))
              /\ mem' = [mem EXCEPT !.commitMessage = args.msg]
         ELSE pc' = "exit" /\ UNCHANGED <<called, mem>>
    /\ UNCHANGED <<stack, args, menuAnswers, isOpMode, env, configFile, gitignore, git, ret, log,
                   cfgOut, giRuns>>

\* ------------------------------------------------------------ setupGitRepo
InitialCommitMessage == <<"Initial commit -", SP, TOOL_DIR, SP, "setup">>

sgStart ==
    /\ pc = "sg_start"
    /\ IF git.isRepo THEN ret' = Returned(TRUE, <<>>) /\ Return
       ELSE pc' = "sg_init" /\ UNCHANGED <<ret, stack>>
    /\ UNCHANGED <<args, menuAnswers, isOpMode, env, configFile, gitignore, git, mem, log,
                   called, cfgOut, giRuns>>

sgInit ==
    /\ pc = "sg_init"
    /\ \E envOk \in BOOLEAN :
       \E r \in {GitInit(git, envOk)} :
         /\ Ran(r, "git init", <<>>)
         /\ IF r.ok THEN pc' = "sg_add" /\ UNCHANGED <<ret, stack>>
            ELSE ret' = Returned(FALSE, <<>>) /\ Return
    /\ UNCHANGED <<args, menuAnswers, isOpMode, env, configFile, gitignore, mem, called,
                   cfgOut, giRuns>>

sgAdd ==
    /\ pc = "sg_add"
    /\ \E envOk \in BOOLEAN :
       \E r \in {GitAddAll(git, envOk)} :
         /\ Ran(r, "git add .", <<>>)
         /\ IF r.ok THEN pc' = "sg_commit" /\ UNCHANGED <<ret, stack>>
            ELSE ret' = Returned(FALSE, <<>>) /\ Return
    /\ UNCHANGED <<args, menuAnswers, isOpMode, env, configFile, gitignore, mem, called,
                   cfgOut, giRuns>>

sgCommit ==
    /\ pc = "sg_commit"
    /\ \E envOk \in BOOLEAN :
       \E r \in {GitCommit(git, FALSE, envOk)} :
         /\ Ran(r, "git commit -m", InitialCommitMessage)
         /\ ret' = Returned(r.ok, <<>>)
    /\ Return
    /\ UNCHANGED <<args, menuAnswers, isOpMode, env, configFile, gitignore, mem, called,
                   cfgOut, giRuns>>

setupGitRepo == sgStart \/ sgInit \/ sgAdd \/ sgCommit

\* --------------------------------------------------------- setupGitIdentity
placeholderNames ==
    {<<"GitHub Backup User">>, <<"backup user">>, <<"test user">>, <<"dummy user">>}

placeholderEmails ==
    {<<"backup@example.com">>, <<"test@example.com">>, <<"user@example.com">>,
     <<"dummy@example.com">>}

\* placeholders.some(p => value.toLowerCase().includes(p.toLowerCase()))
IsPlaceholder(value, placeholders) ==
    \E placeholder \in placeholders : Includes(LowerCase(value), LowerCase(placeholder))

\* answer.toLowerCase() === 'y'
IsY(answer) == LowerCase(answer) = <<"y">>

YesNo == {<<"y">>, <<"Y">>, <<"n">>, <<"y", "e", "s">>}

TypedNames == {<<>>, <<"Bob">>}
TypedEmails == {<<>>, <<"bob@mail">>}

\* What gh api user/emails can give: a failure, a list with a primary
\* address, or an empty list.
EmailAnswers == {"fail", "primary", "empty"}

siUserName ==
    /\ pc = "si_start"
    /\ \E envOk \in BOOLEAN :
       \E r \in {GitConfigGet(git, "name", envOk)} :
         /\ Ran(r, "git config --global user.name", <<>>)
         /\ mem' = [mem EXCEPT !.userName = r.out, !.userEmail = <<>>]
         /\ pc' = IF r.ok THEN "si_email" ELSE "si_gh"
    /\ UNCHANGED <<stack, args, menuAnswers, isOpMode, env, configFile, gitignore, ret,
                   called, cfgOut, giRuns>>

siUserEmail ==
    /\ pc = "si_email"
    /\ \E envOk \in BOOLEAN :
       \E r \in {GitConfigGet(git, "email", envOk)} :
         /\ Ran(r, "git config --global user.email", <<>>)
         /\ mem' = [mem EXCEPT !.userEmail = r.out]
         /\ pc' = IF /\ r.ok
                     /\ ~IsPlaceholder(mem.userName, placeholderNames)
                     /\ ~IsPlaceholder(r.out, placeholderEmails)
                  THEN "si_ask" ELSE "si_gh"
    /\ UNCHANGED <<stack, args, menuAnswers, isOpMode, env, configFile, gitignore, ret,
                   called, cfgOut, giRuns>>

siAsk ==
    /\ pc = "si_ask"
    /\ \E answer \in YesNo :
         /\ Asked("Do you want to use this current global identity? (Y/N): ", answer)
         /\ IF IsY(answer) THEN ret' = Returned(TRUE, <<>>) /\ Return
            ELSE pc' = "si_gh" /\ UNCHANGED <<ret, stack>>
    /\ UNCHANGED <<args, menuAnswers, isOpMode, env, configFile, gitignore, git, mem,
                   called, cfgOut, giRuns>>

siGh ==
    /\ pc = "si_gh"
    /\ IF ~checkCommandExists(env)
       THEN pc' = "si_manual" /\ UNCHANGED <<git, log>>
       ELSE \E envOk \in BOOLEAN :
            \E r \in {GhAuthStatus(git, env, envOk)} :
              /\ Ran(r, "gh auth status", <<>>)
              /\ pc' = IF r.ok THEN "si_api" ELSE "si_manual"
    /\ UNCHANGED <<stack, args, menuAnswers, isOpMode, env, configFile, gitignore, mem, ret,
                   called, cfgOut, giRuns>>

\* gh api user and JSON.parse of what it prints: envOk = FALSE is either failing.
siApi ==
    /\ pc = "si_api"
    /\ \E envOk \in BOOLEAN :
       \E r \in {GhApiUser(git, env, envOk)} :
         /\ Ran(r, "gh api user", <<>>)
         /\ IF ~r.ok THEN pc' = "si_manual" /\ UNCHANGED mem
            ELSE /\ mem' = [mem EXCEPT
                       !.userName = IF env.ghUser.name # <<>> THEN env.ghUser.name
                                    ELSE env.ghUser.login,
                       !.userEmail = env.ghUser.email]
                 /\ pc' = IF env.ghUser.email = <<>> THEN "si_emails" ELSE "si_use"
    /\ UNCHANGED <<stack, args, menuAnswers, isOpMode, env, configFile, gitignore, ret,
                   called, cfgOut, giRuns>>

siEmails ==
    /\ pc = "si_emails"
    /\ \E answer \in EmailAnswers :
         /\ log' = Append(log, Entry("gh api user/emails", <<>>, answer # "fail"))
         /\ mem' = [mem EXCEPT !.userEmail =
                       IF answer = "fail" THEN env.ghUser.login \o <<"@users.noreply.github.com">>
                       ELSE IF answer = "primary" THEN <<"primary@mail">>
                       ELSE <<>>]
    /\ pc' = "si_use"
    /\ UNCHANGED <<stack, args, menuAnswers, isOpMode, env, configFile, gitignore, git, ret,
                   called, cfgOut, giRuns>>

siUse ==
    /\ pc = "si_use"
    /\ IF mem.userName # <<>> /\ mem.userEmail # <<>>
       THEN \E answer \in YesNo :
              /\ Asked("Use this GitHub account information for Git commits? (Y/N): ", answer)
              /\ pc' = IF IsY(answer) THEN "si_gh_name" ELSE "si_manual"
       ELSE pc' = "si_manual" /\ UNCHANGED log
    /\ UNCHANGED <<stack, args, menuAnswers, isOpMode, env, configFile, gitignore, git, mem,
                   ret, called, cfgOut, giRuns>>

siGhName ==
    /\ pc = "si_gh_name"
    /\ \E envOk \in BOOLEAN :
       \E r \in {GitConfigSet(git, "name", mem.userName, envOk)} :
         /\ Ran(r, "git config --global user.name", mem.userName)
         /\ pc' = IF r.ok THEN "si_gh_email" ELSE "si_manual"
    /\ UNCHANGED <<stack, args, menuAnswers, isOpMode, env, configFile, gitignore, mem, ret,
                   called, cfgOut, giRuns>>

siGhEmail ==
    /\ pc = "si_gh_email"
    /\ \E envOk \in BOOLEAN :
       \E r \in {GitConfigSet(git, "email", mem.userEmail, envOk)} :
         /\ Ran(r, "git config --global user.email", mem.userEmail)
         /\ IF r.ok THEN ret' = Returned(TRUE, <<>>) /\ Return
            ELSE pc' = "si_manual" /\ UNCHANGED <<ret, stack>>
    /\ UNCHANGED <<args, menuAnswers, isOpMode, env, configFile, gitignore, mem, called,
                   cfgOut, giRuns>>

siManual ==
    /\ pc = "si_manual"
    /\ \E userName \in TypedNames, userEmail \in TypedEmails :
         /\ log' = log \o <<Entry("Enter your full name for Git commits: ", userName, TRUE),
                            Entry("Enter your email for Git commits: ", userEmail, TRUE)>>
         /\ mem' = [mem EXCEPT !.userName = userName, !.userEmail = userEmail]
         /\ IF userName = <<>> \/ userEmail = <<>>
            THEN ret' = Returned(FALSE, <<>>) /\ Return
            ELSE pc' = "si_man_name" /\ UNCHANGED <<ret, stack>>
    /\ UNCHANGED <<args, menuAnswers, isOpMode, env, configFile, gitignore, git, called,
                   cfgOut, giRuns>>

siManName ==
    /\ pc = "si_man_name"
    /\ \E envOk \in BOOLEAN :
       \E r \in {GitConfigSet(git, "name", mem.userName, envOk)} :
         /\ Ran(r, "git config --global user.name", mem.userName)
         /\ IF r.ok THEN pc' = "si_man_email" /\ UNCHANGED <<ret, stack>>
            ELSE ret' = Returned(FALSE, <<>>) /\ Return
    /\ UNCHANGED <<args, menuAnswers, isOpMode, env, configFile, gitignore, mem, called,
                   cfgOut, giRuns>>

siManEmail ==
    /\ pc = "si_man_email"
    /\ \E envOk \in BOOLEAN :
       \E r \in {GitConfigSet(git, "email", mem.userEmail, envOk)} :
         /\ Ran(r, "git config --global user.email", mem.userEmail)
         /\ ret' = Returned(r.ok, <<>>)
    /\ Return
    /\ UNCHANGED <<args, menuAnswers, isOpMode, env, configFile, gitignore, mem, called,
                   cfgOut, giRuns>>

setupGitIdentity ==
    \/ siUserName \/ siUserEmail \/ siAsk \/ siGh \/ siApi \/ siEmails \/ siUse
    \/ siGhName \/ siGhEmail \/ siManual \/ siManName \/ siManEmail

\* -------------------------------------------------------------- setupGhCli
\* openOk = FALSE is execSync of the browser command throwing, which nothing
\* in setupGhCli catches.
scStart ==
    /\ pc = "sc_start"
    /\ IF checkCommandExists(env)
       THEN pc' = "sc_auth" /\ UNCHANGED <<ret, stack, log>>
       ELSE \E answer \in YesNo, openOk \in BOOLEAN :
              /\ IF IsY(answer)
                 THEN log' = log \o
                        <<Entry("Do you want to open the download page in your browser? (Y/N): ",
                                answer, TRUE),
                          Entry("open https://cli.github.com/", <<>>, openOk)>>
                 ELSE Asked("Do you want to open the download page in your browser? (Y/N): ",
                            answer)
              /\ ret' = IF IsY(answer) /\ ~openOk THEN Thrown ELSE Returned(FALSE, <<>>)
              /\ Return
    /\ UNCHANGED <<args, menuAnswers, isOpMode, env, configFile, gitignore, git, mem, called,
                   cfgOut, giRuns>>

scAuth ==
    /\ pc = "sc_auth"
    /\ \E envOk \in BOOLEAN :
       \E r \in {GhAuthStatus(git, env, envOk)} :
         /\ Ran(r, "gh auth status", <<>>)
         /\ pc' = IF r.ok THEN "sc_user" ELSE "sc_login"
    /\ UNCHANGED <<stack, args, menuAnswers, isOpMode, env, configFile, gitignore, mem, ret,
                   called, cfgOut, giRuns>>

scUser ==
    /\ pc = "sc_user"
    /\ \E envOk \in BOOLEAN :
       \E r \in {GhApiLogin(git, env, envOk)} :
         /\ Ran(r, "gh api user --jq .login", <<>>)
         /\ IF r.ok THEN ret' = Returned(TRUE, <<>>) /\ Return
            ELSE pc' = "sc_login" /\ UNCHANGED <<ret, stack>>
    /\ UNCHANGED <<args, menuAnswers, isOpMode, env, configFile, gitignore, mem, called,
                   cfgOut, giRuns>>

scLogin ==
    /\ pc = "sc_login"
    /\ \E envOk \in BOOLEAN :
       \E r \in {GhAuthLogin(git, env, envOk)} :
         /\ RanGh(r, "gh auth login", <<>>)
         /\ ret' = Returned(r.ok, <<>>)
    /\ Return
    /\ UNCHANGED <<args, menuAnswers, isOpMode, configFile, gitignore, mem, called, cfgOut,
                   giRuns>>

setupGhCli == scStart \/ scAuth \/ scUser \/ scLogin

\* --------------------------------------------- setupProjectConfigAndGhUser
suStart ==
    /\ pc = "su_start"
    /\ IF Truthy(mem.config, GithubUsername)
       THEN pc' = "su_update" /\ UNCHANGED <<git, log, mem, ret, stack>>
       ELSE \E envOk \in BOOLEAN :
            \E r \in {GhApiLogin(git, env, envOk)} :
              /\ Ran(r, "gh api user --jq .login", <<>>)
              /\ IF r.ok
                 THEN /\ mem' = [mem EXCEPT !.config.obj = SetStr(@, GithubUsername, r.out)]
                      /\ pc' = "su_update" /\ UNCHANGED <<ret, stack>>
                 ELSE ret' = Returned(FALSE, <<>>) /\ Return /\ UNCHANGED mem
    /\ UNCHANGED <<args, menuAnswers, isOpMode, env, configFile, gitignore, called, cfgOut,
                   giRuns>>

suUpdate ==
    /\ pc = "su_update"
    /\ \E ioOk \in BOOLEAN :
       \E u \in {updateConfig(configFile, mem.config.obj, isOpMode, ioOk)} :
         configFile' = u.file /\ ret' = Returned(u.ret, <<>>)
    /\ Return
    /\ UNCHANGED <<args, menuAnswers, isOpMode, env, gitignore, git, mem, log, called,
                   cfgOut, giRuns>>

setupProjectConfigAndGhUser == suStart \/ suUpdate

\* --------------------------------------------------------- setupRemoteRepo
\* remoteUrl.match(/github\.com[/:]([^\/]+\/[^\/.]+?)(\.git)?$/): the owner
\* and the name of the repository, ok = FALSE when there is no match.
NoSlash(s) == \A i \in 1..Len(s) : s[i] # "/"
NoDot(s) == \A i \in 1..Len(s) : s[i] \notin {".", ".git"}

WithoutDotGit(s) == IF EndsWith(s, <<".git">>) THEN SubSeq(s, 1, Len(s) - 1) ELSE s

\* The ways to read s as <owner>/<name>, with (.git)? taken or not.
OwnerAndName(s) ==
    { [user |-> SubSeq(tail, 1, k - 1), repo |-> SubSeq(tail, k + 1, Len(tail))] :
        <<tail, k>> \in { <<x, j>> \in {s, WithoutDotGit(s)} \X (1..Len(s)) :
                          /\ j <= Len(x) /\ x[j] = "/"
                          /\ j > 1 /\ NoSlash(SubSeq(x, 1, j - 1))
                          /\ j < Len(x) /\ NoSlash(SubSeq(x, j + 1, Len(x)))
                          /\ NoDot(SubSeq(x, j + 1, Len(x))) } }

RepoFullNameMatches(remoteUrl) ==
    UNION { OwnerAndName(SubSeq(remoteUrl, i + 2, Len(remoteUrl))) :
              i \in {j \in 1..(Len(remoteUrl) - 1) :
                       remoteUrl[j] = "github.com" /\ remoteUrl[j + 1] \in {"/", ":"}} }

\* The characters /[^a-zA-Z0-9_.-]/ removes.
IsForbidden(c) == c \in {"#", "/", SP, NL}

RECURSIVE RemoveForbidden(_)
RemoveForbidden(s) ==
    IF s = <<>> THEN <<>>
    ELSE IF IsForbidden(s[1]) THEN RemoveForbidden(Tail(s))
    ELSE <<s[1]>> \o RemoveForbidden(Tail(s))

IsEdgeChar(c) == c \in {"-", ".", "_"}

RECURSIVE StripLeading(_)
StripLeading(s) == IF s # <<>> /\ IsEdgeChar(s[1]) THEN StripLeading(Tail(s)) ELSE s

RECURSIVE StripTrailing(_)
StripTrailing(s) ==
    IF s # <<>> /\ IsEdgeChar(s[Len(s)]) THEN StripTrailing(SubSeq(s, 1, Len(s) - 1)) ELSE s

\* config.projectName.trim().replace(/\s+/g, '-').replace(/[^a-zA-Z0-9_.-]/g, '')
\*   .replace(/^[-._]+/, '').replace(/[-._]+$/, '') || 'new-backup-repository'
baseRepoName(projectName) ==
    IF StripTrailing(StripLeading(RemoveForbidden(DashSpaces(Trim(projectName))))) = <<>>
    THEN <<"new-backup-repository">>
    ELSE StripTrailing(StripLeading(RemoveForbidden(DashSpaces(Trim(projectName)))))

\* `${baseRepoName}-${counter}`
Numbered(base, counter) == base \o <<"-">> \o NatToText(counter)

\* `${config.<key>}`
ConfigStr(cfg, key) ==
    IF HasKey(cfg.obj, key) /\ Get(cfg.obj, key).t = "str" THEN Get(cfg.obj, key).s
    ELSE <<"undefined">>

FullName(user, repo) == user \o <<"/">> \o repo

srStart ==
    /\ pc = "sr_start"
    /\ \E envOk \in BOOLEAN :
       \E r \in {GitRemoteGetUrl(git, envOk)} :
       \E matches \in {RepoFullNameMatches(r.out)} :
         /\ Ran(r, "git remote get-url origin", <<>>)
         /\ IF ~r.ok \/ r.out = <<>> \/ matches = {}
            THEN /\ mem' = [mem EXCEPT !.remoteUrl = r.out]
                 /\ pc' = "sr_name"
            ELSE \E m \in {CHOOSE x \in matches : TRUE} :
                 /\ mem' = [mem EXCEPT !.remoteUrl = r.out, !.repoFullName = m]
                 /\ pc' = IF m.user # ConfigStr(mem.freshConfig, GithubUsername)
                          THEN "sr_other" ELSE "sr_view_own"
    /\ UNCHANGED <<stack, args, menuAnswers, isOpMode, env, configFile, gitignore, ret,
                   called, cfgOut, giRuns>>

srViewOwn ==
    /\ pc = "sr_view_own"
    /\ \E envOk \in BOOLEAN :
       \E r \in {GhRepoView(git, env, mem.repoFullName.user, mem.repoFullName.repo, envOk)} :
         /\ Ran(r, "gh repo view", FullName(mem.repoFullName.user, mem.repoFullName.repo))
         /\ IF r.ok THEN ret' = Returned(TRUE, mem.remoteUrl) /\ Return
            ELSE pc' = "sr_drop" /\ UNCHANGED <<ret, stack>>
    /\ UNCHANGED <<args, menuAnswers, isOpMode, env, configFile, gitignore, mem, called,
                   cfgOut, giRuns>>

srOther ==
    /\ pc = "sr_other"
    /\ \E createNewRepo \in YesNo :
         /\ Asked("Do you want to create a new repository under your account instead? (Y/N): ",
                  createNewRepo)
         /\ pc' = IF IsY(createNewRepo) THEN "sr_drop" ELSE "sr_view_other"
    /\ UNCHANGED <<stack, args, menuAnswers, isOpMode, env, configFile, gitignore, git, mem,
                   ret, called, cfgOut, giRuns>>

srViewOther ==
    /\ pc = "sr_view_other"
    /\ \E envOk \in BOOLEAN, forceCreateNew \in YesNo :
       \E r \in {GhRepoView(git, env, mem.repoFullName.user, mem.repoFullName.repo, envOk)} :
         /\ git' = r.git
         /\ IF r.ok
            THEN /\ log' = Append(log, Entry("gh repo view",
                              FullName(mem.repoFullName.user, mem.repoFullName.repo), TRUE))
                 /\ ret' = Returned(TRUE, mem.remoteUrl) /\ Return
            ELSE /\ log' = log \o
                        <<Entry("gh repo view",
                                FullName(mem.repoFullName.user, mem.repoFullName.repo), FALSE),
                          Entry("Create a new repository under your account instead? (Y/N): ",
                                forceCreateNew, TRUE)>>
                 /\ IF IsY(forceCreateNew) THEN pc' = "sr_drop" /\ UNCHANGED <<ret, stack>>
                    ELSE ret' = Returned(TRUE, mem.remoteUrl) /\ Return
    /\ UNCHANGED <<args, menuAnswers, isOpMode, env, configFile, gitignore, mem, called,
                   cfgOut, giRuns>>

\* git remote remove origin, whose failure is caught.
srDrop ==
    /\ pc = "sr_drop"
    /\ \E envOk \in BOOLEAN :
         Ran(GitRemoteRemove(git, envOk), "git remote remove origin", <<>>)
    /\ pc' = "sr_name"
    /\ UNCHANGED <<stack, args, menuAnswers, isOpMode, env, configFile, gitignore, mem, ret,
                   called, cfgOut, giRuns>>

srName ==
    /\ pc = "sr_name"
    /\ mem' = [mem EXCEPT !.repoName = baseRepoName(ConfigStr(mem.freshConfig, ProjectName)),
                          !.counter = 0]
    /\ pc' = "sr_probe"
    /\ UNCHANGED <<stack, args, menuAnswers, isOpMode, env, configFile, gitignore, git, ret,
                   log, called, cfgOut, giRuns>>

srProbeOnce ==
    /\ pc = "sr_probe"
    /\ \E envOk \in BOOLEAN :
       \E r \in {GhRepoView(git, env, ConfigStr(mem.freshConfig, GithubUsername),
                            mem.repoName, envOk)} :
         /\ Ran(r, "gh repo view",
                FullName(ConfigStr(mem.freshConfig, GithubUsername), mem.repoName))
         /\ IF r.ok
            THEN /\ mem' = [mem EXCEPT
                       !.counter = @ + 1,
                       !.repoName = Numbered(baseRepoName(ConfigStr(mem.freshConfig, ProjectName)),
                                             mem.counter + 1)]
                 /\ pc' = "sr_private"
            ELSE pc' = "sr_private" /\ UNCHANGED mem
    /\ UNCHANGED <<stack, args, menuAnswers, isOpMode, env, configFile, gitignore, ret,
                   called, cfgOut, giRuns>>

srProbe ==
    /\ pc = "sr_probe"
    /\ \E envOk \in BOOLEAN :
       \E r \in {GhRepoView(git, env, ConfigStr(mem.freshConfig, GithubUsername),
                            mem.repoName, envOk)} :
         /\ Ran(r, "gh repo view",
                FullName(ConfigStr(mem.freshConfig, GithubUsername), mem.repoName))
         /\ IF r.ok
            THEN /\ mem' = [mem EXCEPT
                       !.counter = @ + 1,
                       !.repoName = Numbered(baseRepoName(ConfigStr(mem.freshConfig, ProjectName)),
                                             mem.counter + 1)]
                 /\ pc' = "sr_probe"
            ELSE pc' = "sr_private" /\ UNCHANGED mem
    /\ UNCHANGED <<stack, args, menuAnswers, isOpMode, env, configFile, gitignore, ret,
                   called, cfgOut, giRuns>>

srPrivate ==
    /\ pc = "sr_private"
    /\ \E answer \in YesNo :
         Asked("Should this new GitHub repository be private? (Y/N): ", answer)
    /\ pc' = "sr_verify"
    /\ UNCHANGED <<stack, args, menuAnswers, isOpMode, env, configFile, gitignore, git, mem,
                   ret, called, cfgOut, giRuns>>

srVerify ==
    /\ pc = "sr_verify"
    /\ \E envOk \in BOOLEAN :
       \E r \in {GitVerifyHead(git, envOk)} :
         /\ Ran(r, "git rev-parse --verify HEAD^{commit}", <<>>)
         /\ pc' = IF r.ok THEN "sr_create" ELSE "sr_add"
    /\ UNCHANGED <<stack, args, menuAnswers, isOpMode, env, configFile, gitignore, mem, ret,
                   called, cfgOut, giRuns>>

srAdd ==
    /\ pc = "sr_add"
    /\ \E envOk \in BOOLEAN :
       \E r \in {GitAddAll(git, envOk)} :
         /\ Ran(r, "git add -A", <<>>)
         /\ pc' = IF r.ok THEN "sr_commit" ELSE "sr_create"
    /\ UNCHANGED <<stack, args, menuAnswers, isOpMode, env, configFile, gitignore, mem, ret,
                   called, cfgOut, giRuns>>

srCommit ==
    /\ pc = "sr_commit"
    /\ \E envOk \in BOOLEAN :
         Ran(GitCommit(git, TRUE, envOk), "git commit --allow-empty -m",
             <<"Initial commit by", SP, TOOL_DIR>>)
    /\ pc' = "sr_create"
    /\ UNCHANGED <<stack, args, menuAnswers, isOpMode, env, configFile, gitignore, mem, ret,
                   called, cfgOut, giRuns>>

srCreate ==
    /\ pc = "sr_create"
    /\ \E envOk \in BOOLEAN :
       \E r \in {GhRepoCreate(git, env, ConfigStr(mem.freshConfig, GithubUsername),
                              mem.repoName, envOk)} :
         /\ RanGh(r, "gh repo create",
                  FullName(ConfigStr(mem.freshConfig, GithubUsername), mem.repoName))
         /\ ret' = IF r.ok
                   THEN Returned(TRUE, GithubUrl(ConfigStr(mem.freshConfig, GithubUsername),
                                                 mem.repoName))
                   ELSE Returned(FALSE, <<>>)
    /\ Return
    /\ UNCHANGED <<args, menuAnswers, isOpMode, configFile, gitignore, mem, called, cfgOut,
                   giRuns>>

setupRemoteRepo ==
    \/ srStart \/ srViewOwn \/ srOther \/ srViewOther \/ srDrop \/ srName \/ srProbe
    \/ srPrivate \/ srVerify \/ srAdd \/ srCommit \/ srCreate

\* ---------------------------------------------------- createProjectConfig
\* createProjectConfig(targetProjectRootDir): the config file it leaves.
\* writeOk = FALSE is mkdirSync or writeFileSync throwing.
createProjectConfigOverwrites(file, projectNameForConfig, now, writeOk) ==
    IF writeOk THEN File(JSONstringify(DefaultConfig(projectNameForConfig, now)))
    ELSE file

createProjectConfig(file, projectNameForConfig, now, writeOk) ==
    IF file.exists THEN file
    ELSE IF writeOk THEN File(JSONstringify(DefaultConfig(projectNameForConfig, now)))
    ELSE file

ccStart ==
    /\ pc = "cc_start"
    /\ \E writeOk \in BOOLEAN :
         configFile' = createProjectConfig(configFile, env.basename, env.now, writeOk)
    /\ Return
    /\ UNCHANGED <<args, menuAnswers, isOpMode, env, gitignore, git, mem, ret, log, called,
                   cfgOut, giRuns>>

\* ------------------------------------------------------------ opInitBackup
\* config.projectName !== currentProjectNameBasedOnDir
NameDiffers(config, currentProjectNameBasedOnDir) ==
    \/ ~HasKey(config.obj, ProjectName)
    \/ Get(config.obj, ProjectName).t # "str"
    \/ Get(config.obj, ProjectName).s # currentProjectNameBasedOnDir

inStart ==
    /\ pc = "in_start"
    /\ \E ioOk \in BOOLEAN :
       \E config \in {readConfig(configFile, isOpMode, ioOk)} :
         /\ mem' = [mem EXCEPT !.config = config]
         /\ IF config.null
            THEN Call("createProjectConfig", "cc_start", "in_created")
            ELSE pc' = "in_name" /\ UNCHANGED <<stack, called>>
    /\ UNCHANGED <<args, menuAnswers, isOpMode, env, configFile, gitignore, git, ret, log,
                   cfgOut, giRuns>>

inCreated ==
    /\ pc = "in_created"
    /\ \E ioOk \in BOOLEAN :
       \E config \in {readConfig(configFile, isOpMode, ioOk)} :
         /\ mem' = [mem EXCEPT !.config = config]
         /\ pc' = IF config.null THEN "exit" ELSE "in_name"
    /\ UNCHANGED <<stack, args, menuAnswers, isOpMode, env, configFile, gitignore, git, ret,
                   log, called, cfgOut, giRuns>>

inName ==
    /\ pc = "in_name"
    /\ IF NameDiffers(mem.config, env.basename)
       THEN \E writeOk \in BOOLEAN, readOk \in BOOLEAN :
            \E u \in {updateConfig(configFile, SetStr(mem.config.obj, ProjectName, env.basename),
                                   isOpMode, writeOk)} :
            \E config \in {readConfig(u.file, isOpMode, readOk)} :
              /\ configFile' = u.file
              /\ IF ~u.ret
                 THEN /\ mem' = [mem EXCEPT !.config.obj = SetStr(@, ProjectName, env.basename)]
                      /\ pc' = "exit" /\ UNCHANGED <<stack, called>>
                 ELSE /\ mem' = [mem EXCEPT !.config = config]
                      /\ IF config.null THEN pc' = "exit" /\ UNCHANGED <<stack, called>>
                         ELSE Call("setupGitRepo", "sg_start", "in_repo")
       ELSE /\ Call("setupGitRepo", "sg_start", "in_repo")
            /\ UNCHANGED <<configFile, mem>>
    /\ UNCHANGED <<args, menuAnswers, isOpMode, env, gitignore, git, ret, log, cfgOut, giRuns>>

inRepo ==
    /\ pc = "in_repo"
    /\ IF ~ret.b THEN pc' = "exit" /\ UNCHANGED <<stack, called>>
       ELSE Call("setupGitIdentity", "si_start", "in_identity")
    /\ UNCHANGED <<args, menuAnswers, isOpMode, env, configFile, gitignore, git, mem, ret,
                   log, cfgOut, giRuns>>

inIdentity ==
    /\ pc = "in_identity"
    /\ IF ~ret.b THEN pc' = "exit" /\ UNCHANGED <<stack, called>>
       ELSE Call("setupGhCli", "sc_start", "in_gh")
    /\ UNCHANGED <<args, menuAnswers, isOpMode, env, configFile, gitignore, git, mem, ret,
                   log, cfgOut, giRuns>>

inGh ==
    /\ pc = "in_gh"
    /\ IF ret.thrown \/ ~ret.b THEN pc' = "exit" /\ UNCHANGED <<stack, called>>
       ELSE Call("setupProjectConfigAndGhUser", "su_start", "in_user")
    /\ UNCHANGED <<args, menuAnswers, isOpMode, env, configFile, gitignore, git, mem, ret,
                   log, cfgOut, giRuns>>

inUser ==
    /\ pc = "in_user"
    /\ IF ~ret.b
       THEN pc' = "exit" /\ UNCHANGED <<stack, called, mem>>
       ELSE \E ioOk \in BOOLEAN :
            \E freshConfig \in {readConfig(configFile, isOpMode, ioOk)} :
              /\ mem' = [mem EXCEPT !.freshConfig = freshConfig]
              /\ IF freshConfig.null THEN pc' = "exit" /\ UNCHANGED <<stack, called>>
                 ELSE Call("setupRemoteRepo", "sr_start", "in_remote")
    /\ UNCHANGED <<args, menuAnswers, isOpMode, env, configFile, gitignore, git, ret, log,
                   cfgOut, giRuns>>

inRemote ==
    /\ pc = "in_remote"
    /\ pc' = "exit"
    /\ UNCHANGED <<stack, args, menuAnswers, isOpMode, env, configFile, gitignore, git, mem,
                   ret, log, called, cfgOut, giRuns>>

opInitBackup ==
    inStart \/ inCreated \/ inName \/ inRepo \/ inIdentity \/ inGh \/ inUser \/ inRemote

\* --------------------------------------------------- opCleanOldUserCommits
\* logOutput.split('\n').filter(line => line.trim())
CommitLines(logOutput) == SelectSeq(Split(logOutput, NL), LAMBDA line : Trim(line) # <<>>)

\* const [hash, authorName, authorEmail, subject] = commitLine.split('|'): a
\* field the line does not have is undefined.
Field(commitLine, i) ==
    IF i <= Len(Split(commitLine, "|")) THEN Split(commitLine, "|")[i] ELSE <<"undefined">>

HasField(commitLine, i) == i <= Len(Split(commitLine, "|"))

isCurrentUser(commitLine, currentUser) ==
    \/ Field(commitLine, 2) = currentUser
    \/ Includes(Field(commitLine, 3), currentUser)
    \/ Field(commitLine, 3) = currentUser \o <<"@users.noreply.github.com">>

\* authorEmail.includes(...) on an undefined authorEmail throws.
ClassifyThrows(commits, currentUser) ==
    \E i \in 1..Len(commits) :
      Field(commits[i], 2) # currentUser /\ ~HasField(commits[i], 3)

Hashes(commits) == [i \in 1..Len(commits) |-> Field(commits[i], 1)]

currentUserCommits(commits, currentUser) ==
    Hashes(SelectSeq(commits, LAMBDA line : isCurrentUser(line, currentUser)))

oldUserCommitsAll(commits, currentUser) ==
    Hashes(SelectSeq(commits, LAMBDA line : TRUE))

oldUserCommits(commits, currentUser) ==
    Hashes(SelectSeq(commits, LAMBDA line : ~isCurrentUser(line, currentUser)))

ConfirmClean ==
    "This will remove ALL commits from other users and keep only your commits. Continue? (Y/N): "
PushClean == "Force push the cleaned history to remote? (Y/N): "
TempCleanBranch == <<"temp-clean-branch">>

CleanCommitMessage(currentUser) ==
    <<"Clean repository - Initial commit by", SP>> \o currentUser

chStart ==
    /\ pc = "ch_start"
    /\ \E ioOk \in BOOLEAN :
       \E config \in {readConfig(configFile, isOpMode, ioOk)} :
         /\ mem' = [mem EXCEPT !.config = config]
         /\ IF ConfigUsable(config, GithubUsername)
            THEN Call("getCurrentGitBranch", "gcb_abbrev", "ch_branch")
            ELSE pc' = "exit" /\ UNCHANGED <<stack, called>>
    /\ UNCHANGED <<args, menuAnswers, isOpMode, env, configFile, gitignore, git, ret, log,
                   cfgOut, giRuns>>

chBranch ==
    /\ pc = "ch_branch"
    /\ IF ret.thrown
       THEN pc' = "exit" /\ UNCHANGED mem
       ELSE pc' = "ch_log" /\ mem' = [mem EXCEPT !.currentBranch = ret.s]
    /\ UNCHANGED <<stack, called, args, menuAnswers, isOpMode, env, configFile, gitignore, git,
                   ret, log, cfgOut, giRuns>>

chLog ==
    /\ pc = "ch_log"
    /\ \E envOk \in BOOLEAN, confirmClean \in Answers :
       \E r \in {GitLogAll(git, envOk)} :
       \E commits \in {CommitLines(r.out)} :
       \E currentUser \in {ConfigStr(mem.config, GithubUsername)} :
         /\ git' = r.git
         /\ IF \/ ~r.ok \/ commits = <<>> \/ ClassifyThrows(commits, currentUser)
               \/ oldUserCommits(commits, currentUser) = <<>>
            THEN /\ log' = Append(log, Entry("git log --all", <<>>, r.ok))
                 /\ pc' = "exit"
                 /\ UNCHANGED mem
            ELSE /\ log' = log \o <<Entry("git log --all", <<>>, r.ok),
                                    Entry(ConfirmClean, confirmClean, TRUE)>>
                 /\ mem' = [mem EXCEPT
                              !.currentUserCommits = currentUserCommits(commits, currentUser),
                              !.oldUserCommits = oldUserCommits(commits, currentUser)]
                 /\ pc' = IF ~IsY(confirmClean) THEN "exit"
                          ELSE IF currentUserCommits(commits, currentUser) = <<>>
                          THEN "ch_orphan"
                          ELSE "ch_reset"
    /\ UNCHANGED <<stack, called, args, menuAnswers, isOpMode, env, configFile, gitignore, ret,
                   cfgOut, giRuns>>

\* One command of a try block: on failure the catch block returns.
chStep(r, cmd, arg, next) ==
    /\ Ran(r, cmd, arg)
    /\ pc' = IF r.ok THEN next ELSE "exit"
    /\ UNCHANGED <<stack, called, args, menuAnswers, isOpMode, env, configFile, gitignore, mem,
                   ret, cfgOut, giRuns>>

chOrphan ==
    /\ pc = "ch_orphan"
    /\ \E envOk \in BOOLEAN :
         chStep(GitCheckoutOrphan(git, TempCleanBranch, envOk), "git checkout --orphan",
                TempCleanBranch, "ch_add")

chAdd ==
    /\ pc = "ch_add"
    /\ \E envOk \in BOOLEAN :
         chStep(GitAddAll(git, envOk), "git add -A", <<>>, "ch_commit")

chCommit ==
    /\ pc = "ch_commit"
    /\ \E envOk \in BOOLEAN :
         chStep(GitCommit(git, FALSE, envOk), "git commit -m",
                CleanCommitMessage(ConfigStr(mem.config, GithubUsername)), "ch_delete")

chDelete ==
    /\ pc = "ch_delete"
    /\ \E envOk \in BOOLEAN :
         chStep(GitBranchDelete(git, mem.currentBranch, envOk), "git branch -D",
                mem.currentBranch, "ch_rename")

chRename ==
    /\ pc = "ch_rename"
    /\ \E envOk \in BOOLEAN :
         chStep(GitBranchRename(git, mem.currentBranch, envOk), "git branch -m",
                mem.currentBranch, "ch_push")

chResetNewest ==
    /\ pc = "ch_reset"
    /\ \E envOk \in BOOLEAN :
         chStep(GitResetHard(git, CommitOfHash(git, mem.currentUserCommits[1]), envOk),
                "git reset --hard", mem.currentUserCommits[1], "ch_push")

\* git reset --hard <the last of currentUserCommits>
chReset ==
    /\ pc = "ch_reset"
    /\ \E envOk \in BOOLEAN :
         chStep(GitResetHard(git,
                             CommitOfHash(git, mem.currentUserCommits[Len(mem.currentUserCommits)]),
                             envOk),
                "git reset --hard", mem.currentUserCommits[Len(mem.currentUserCommits)],
                "ch_push")

chPush ==
    /\ pc = "ch_push"
    /\ \E envOk \in BOOLEAN, pushClean \in Answers :
       \E r \in {GitPush(git, mem.currentBranch, TRUE, envOk)} :
         IF IsY(pushClean)
         THEN /\ git' = r.git
              /\ log' = log \o <<Entry(PushClean, pushClean, TRUE),
                                 Entry("git push --force origin", mem.currentBranch, r.ok)>>
         ELSE /\ Asked(PushClean, pushClean)
              /\ UNCHANGED git
    /\ pc' = "exit"
    /\ UNCHANGED <<stack, called, args, menuAnswers, isOpMode, env, configFile, gitignore, mem,
                   ret, cfgOut, giRuns>>

opCleanOldUserCommits ==
    \/ chStart \/ chBranch \/ chLog \/ chOrphan \/ chAdd \/ chCommit \/ chDelete \/ chRename
    \/ chReset \/ chPush

\* ------------------------------------------------------- opCleanAllCommits
ConfirmCleanAll == "Continue with cleaning all commit history? (Y/N): "

caStart ==
    /\ pc = "ca_start"
    /\ \E ioOk \in BOOLEAN :
       \E config \in {readConfig(configFile, isOpMode, ioOk)} :
         /\ mem' = [mem EXCEPT !.config = config]
         /\ IF ConfigUsable(config, GithubUsername)
            THEN Call("getCurrentGitBranch", "gcb_abbrev", "ca_branch")
            ELSE pc' = "exit" /\ UNCHANGED <<stack, called>>
    /\ UNCHANGED <<args, menuAnswers, isOpMode, env, configFile, gitignore, git, ret, log,
                   cfgOut, giRuns>>

caBranch ==
    /\ pc = "ca_branch"
    /\ IF ret.thrown
       THEN pc' = "exit" /\ UNCHANGED <<mem, log>>
       ELSE \E confirmClean \in Answers :
              /\ mem' = [mem EXCEPT !.currentBranch = ret.s]
              /\ Asked(ConfirmCleanAll, confirmClean)
              /\ pc' = IF IsY(confirmClean) THEN "ca_orphan" ELSE "exit"
    /\ UNCHANGED <<stack, called, args, menuAnswers, isOpMode, env, configFile, gitignore, git,
                   ret, cfgOut, giRuns>>

\* One command of the try block: on failure the catch block takes over.
caStep(r, cmd, arg, next) ==
    /\ Ran(r, cmd, arg)
    /\ pc' = IF r.ok THEN next ELSE "ca_recover"
    /\ UNCHANGED <<stack, called, args, menuAnswers, isOpMode, env, configFile, gitignore, mem,
                   ret, cfgOut, giRuns>>

caOrphan ==
    /\ pc = "ca_orphan"
    /\ \E envOk \in BOOLEAN :
         caStep(GitCheckoutOrphan(git, TempCleanBranch, envOk), "git checkout --orphan",
                TempCleanBranch, "ca_add")

caAdd ==
    /\ pc = "ca_add"
    /\ \E envOk \in BOOLEAN :
         caStep(GitAddAll(git, envOk), "git add -A", <<>>, "ca_commit")

caCommitUnchecked ==
    /\ pc = "ca_commit"
    /\ \E envOk \in BOOLEAN :
         /\ Ran(GitCommit(git, FALSE, envOk), "git commit -m",
                CleanCommitMessage(ConfigStr(mem.config, GithubUsername)))
         /\ pc' = "ca_delete"
    /\ UNCHANGED <<stack, called, args, menuAnswers, isOpMode, env, configFile, gitignore, mem,
                   ret, cfgOut, giRuns>>

caCommit ==
    /\ pc = "ca_commit"
    /\ \E envOk \in BOOLEAN :
         caStep(GitCommit(git, FALSE, envOk), "git commit -m",
                CleanCommitMessage(ConfigStr(mem.config, GithubUsername)), "ca_delete")

caDelete ==
    /\ pc = "ca_delete"
    /\ \E envOk \in BOOLEAN :
         caStep(GitBranchDelete(git, mem.currentBranch, envOk), "git branch -D",
                mem.currentBranch, "ca_rename")

caRename ==
    /\ pc = "ca_rename"
    /\ \E envOk \in BOOLEAN :
         caStep(GitBranchRename(git, mem.currentBranch, envOk), "git branch -m",
                mem.currentBranch, "ca_push")

caPushUnasked ==
    /\ pc = "ca_push"
    /\ \E envOk \in BOOLEAN, pushClean \in Answers :
       \E r \in {GitPush(git, mem.currentBranch, TRUE, envOk)} :
         /\ git' = r.git
         /\ log' = log \o <<Entry(PushClean, pushClean, TRUE),
                            Entry("git push --force origin", mem.currentBranch, r.ok)>>
    /\ pc' = "exit"
    /\ UNCHANGED <<stack, called, args, menuAnswers, isOpMode, env, configFile, gitignore, mem,
                   ret, cfgOut, giRuns>>

\* The force push has a try block of its own.
caPush ==
    /\ pc = "ca_push"
    /\ \E envOk \in BOOLEAN, pushClean \in Answers :
       \E r \in {GitPush(git, mem.currentBranch, TRUE, envOk)} :
         IF IsY(pushClean)
         THEN /\ git' = r.git
              /\ log' = log \o <<Entry(PushClean, pushClean, TRUE),
                                 Entry("git push --force origin", mem.currentBranch, r.ok)>>
         ELSE /\ Asked(PushClean, pushClean)
              /\ UNCHANGED git
    /\ pc' = "exit"
    /\ UNCHANGED <<stack, called, args, menuAnswers, isOpMode, env, configFile, gitignore, mem,
                   ret, cfgOut, giRuns>>

\* catch (error): git checkout <currentBranch>, its failure only reported
caRecover ==
    /\ pc = "ca_recover"
    /\ \E envOk \in BOOLEAN :
       \E r \in {GitCheckout(git, mem.currentBranch, envOk)} :
         Ran(r, "git checkout", mem.currentBranch)
    /\ pc' = "exit"
    /\ UNCHANGED <<stack, called, args, menuAnswers, isOpMode, env, configFile, gitignore, mem,
                   ret, cfgOut, giRuns>>

opCleanAllCommits ==
    \/ caStart \/ caBranch \/ caOrphan \/ caAdd \/ caCommit \/ caDelete \/ caRename
    \/ caPush \/ caRecover

\* ------------------------------------------------------------- pullChanges
plStart ==
    /\ pc = "pl_start"
    /\ Call("getCurrentGitBranch", "gcb_abbrev", "pl_pull")
    /\ UNCHANGED <<args, menuAnswers, isOpMode, env, configFile, gitignore, git, mem, ret, log,
                   cfgOut, giRuns>>

\* git pull origin <currentBranch>, its failure only reported
plPull ==
    /\ pc = "pl_pull"
    /\ IF ret.thrown
       THEN UNCHANGED <<git, log>>
       ELSE \E envOk \in BOOLEAN :
              Ran(GitPull(git, ret.s, envOk), "git pull origin", ret.s)
    /\ pc' = "exit"
    /\ UNCHANGED <<stack, called, args, menuAnswers, isOpMode, env, configFile, gitignore, mem,
                   ret, cfgOut, giRuns>>

pullChanges == plStart \/ plPull

\* ------------------------------------------------------ opDeleteRemoteRepo
GrantPrompt == "Grant \"delete_repo\" permission to GitHub CLI? (Y/N): "
RefreshedPrompt == "Press Enter after completing authentication in the new window..."
DeleteNamePrompt ==
    "Enter the full GitHub repository name to delete (e.g., username/repository-name): "
\* The warning that ends with this request (it quotes the name entered).
DeleteConfirmPrompt == "To confirm, please type the full repository name again: "

\* What the user types at the two name prompts.
DeleteNames ==
    {<<>>, <<"proj">>, <<"alice", "/", "proj">>, <<"bob", "/", "proj">>}

drStart ==
    /\ pc = "dr_start"
    /\ pc' = IF checkCommandExists(env) THEN "dr_auth" ELSE "exit"
    /\ UNCHANGED <<stack, called, args, menuAnswers, isOpMode, env, configFile, gitignore, git,
                   mem, ret, log, cfgOut, giRuns>>

\* gh auth status and authStatus.includes('delete_repo')
drAuth ==
    /\ pc = "dr_auth"
    /\ \E envOk \in BOOLEAN, onStdout \in BOOLEAN :
       \E r \in {GhAuthStatusOut(git, env, onStdout, envOk)} :
         /\ RanGh(r, "gh auth status", r.out)
         /\ pc' = IF ~r.ok THEN "exit"
                  ELSE IF Includes(r.out, <<"delete_repo">>) THEN "dr_name"
                  ELSE "dr_grant"
    /\ UNCHANGED <<stack, called, args, menuAnswers, isOpMode, configFile, gitignore, mem, ret,
                   cfgOut, giRuns>>

\* The offer to refresh the token, and the terminal window opened for it;
\* execOk = FALSE is execSync throwing.
drGrant ==
    /\ pc = "dr_grant"
    /\ \E requestPerms \in Answers, execOk \in BOOLEAN :
         IF ~IsY(requestPerms)
         THEN Asked(GrantPrompt, requestPerms) /\ pc' = "exit"
         ELSE /\ log' = log \o <<Entry(GrantPrompt, requestPerms, TRUE),
                                 Entry("gh auth refresh -h github.com -s delete_repo", <<>>,
                                       execOk)>>
              /\ pc' = IF execOk THEN "dr_refreshed" ELSE "exit"
    /\ UNCHANGED <<stack, called, args, menuAnswers, isOpMode, env, configFile, gitignore, git,
                   mem, ret, cfgOut, giRuns>>

\* The user comes back from the other window, where the scope was granted
\* or was not.
drRefreshed ==
    /\ pc = "dr_refreshed"
    /\ Asked(RefreshedPrompt, <<>>)
    /\ \E granted \in BOOLEAN :
         env' = [env EXCEPT !.deleteScope = @ \/ (granted /\ env.ghAuthed)]
    /\ pc' = "dr_reauth"
    /\ UNCHANGED <<stack, called, args, menuAnswers, isOpMode, configFile, gitignore, git, mem,
                   ret, cfgOut, giRuns>>

\* gh auth status once more
drReauth ==
    /\ pc = "dr_reauth"
    /\ \E envOk \in BOOLEAN, onStdout \in BOOLEAN :
       \E r \in {GhAuthStatusOut(git, env, onStdout, envOk)} :
         /\ RanGh(r, "gh auth status", r.out)
         /\ pc' = IF r.ok /\ Includes(r.out, <<"delete_repo">>) THEN "dr_name" ELSE "exit"
    /\ UNCHANGED <<stack, called, args, menuAnswers, isOpMode, configFile, gitignore, mem, ret,
                   cfgOut, giRuns>>

drName ==
    /\ pc = "dr_name"
    /\ \E repoFullName \in DeleteNames :
         /\ Asked(DeleteNamePrompt, repoFullName)
         /\ mem' = [mem EXCEPT !.repoFullName = repoFullName]
         /\ pc' = IF repoFullName = <<>> \/ ~Includes(repoFullName, <<"/">>) THEN "exit"
                  ELSE "dr_view"
    /\ UNCHANGED <<stack, called, args, menuAnswers, isOpMode, env, configFile, gitignore, git,
                   ret, cfgOut, giRuns>>

drView ==
    /\ pc = "dr_view"
    /\ \E envOk \in BOOLEAN :
       \E r \in {GhRepoViewName(git, env, mem.repoFullName, envOk)} :
         /\ RanGh(r, "gh repo view", mem.repoFullName)
         /\ pc' = IF r.ok THEN "dr_confirm" ELSE "exit"
    /\ UNCHANGED <<stack, called, args, menuAnswers, isOpMode, configFile, gitignore, mem, ret,
                   cfgOut, giRuns>>

drConfirmAny ==
    /\ pc = "dr_confirm"
    /\ \E confirmRepoName \in DeleteNames :
         /\ Asked(DeleteConfirmPrompt, confirmRepoName)
         /\ pc' = IF confirmRepoName = <<>> THEN "exit" ELSE "dr_delete"
    /\ UNCHANGED <<stack, called, args, menuAnswers, isOpMode, env, configFile, gitignore, git,
                   mem, ret, cfgOut, giRuns>>

\* confirmRepoName !== repoFullName
drConfirm ==
    /\ pc = "dr_confirm"
    /\ \E confirmRepoName \in DeleteNames :
         /\ Asked(DeleteConfirmPrompt, confirmRepoName)
         /\ pc' = IF confirmRepoName # mem.repoFullName THEN "exit" ELSE "dr_delete"
    /\ UNCHANGED <<stack, called, args, menuAnswers, isOpMode, env, configFile, gitignore, git,
                   mem, ret, cfgOut, giRuns>>

drDelete ==
    /\ pc = "dr_delete"
    /\ \E envOk \in BOOLEAN :
       \E r \in {GhRepoDelete(git, env, mem.repoFullName, envOk)} :
         /\ RanGh(r, "gh repo delete", mem.repoFullName)
         /\ pc' = IF r.ok THEN "dr_origin" ELSE "exit"
    /\ UNCHANGED <<stack, called, args, menuAnswers, isOpMode, configFile, gitignore, mem, ret,
                   cfgOut, giRuns>>

\* git remote get-url origin and currentRemoteUrl.includes(repoFullName)
drOrigin ==
    /\ pc = "dr_origin"
    /\ \E envOk \in BOOLEAN :
       \E r \in {GitRemoteGetUrl(git, envOk)} :
         /\ Ran(r, "git remote get-url origin", r.out)
         /\ pc' = IF r.ok /\ r.out # <<>> /\ Includes(r.out, mem.repoFullName)
                  THEN "dr_remove" ELSE "exit"
    /\ UNCHANGED <<stack, called, args, menuAnswers, isOpMode, env, configFile, gitignore, mem,
                   ret, cfgOut, giRuns>>

\* git remote remove origin, whose failure is caught
drRemove ==
    /\ pc = "dr_remove"
    /\ \E envOk \in BOOLEAN :
         Ran(GitRemoteRemove(git, envOk), "git remote remove origin", <<>>)
    /\ pc' = "exit"
    /\ UNCHANGED <<stack, called, args, menuAnswers, isOpMode, env, configFile, gitignore, mem,
                   ret, cfgOut, giRuns>>

opDeleteRemoteRepo ==
    \/ drStart \/ drAuth \/ drGrant \/ drRefreshed \/ drReauth \/ drName \/ drView
    \/ drConfirm \/ drDelete \/ drOrigin \/ drRemove

\* ------------------------------------------------------- handleInstallMode
OverwritePrompt == "Do you want to overwrite it? (Y/N): "
TargetPrompt == "Please enter the path to your project folder: "
SetupNowPrompt == "Would you like to run the initial setup now? (Y/N): "

\* The installer is started with the target directory in args.msg (empty:
\* it is asked for); isDir says whether the path names a directory.
hiStart ==
    /\ pc = "main"
    /\ ~isOpMode
    /\ \E typed \in {<<>>, <<"proj">>}, isDir \in BOOLEAN :
       \E targetDir \in {IF args.msg = <<>> THEN typed ELSE args.msg} :
         /\ IF args.msg = <<>> THEN Asked(TargetPrompt, typed) ELSE UNCHANGED log
         /\ pc' = IF targetDir = <<>> \/ ~isDir THEN "exit"
                  ELSE IF env.toolDir THEN "hi_overwrite"
                  ELSE "hi_mkdir"
    /\ UNCHANGED <<stack, called, args, menuAnswers, isOpMode, env, configFile, gitignore, git,
                   mem, ret, cfgOut, giRuns>>

\* fs.rmSync(toolDirInProject, {recursive, force}) after the user agreed: the
\* directory goes with all it holds; a removal that throws may have removed
\* part of it.
hiOverwrite ==
    /\ pc = "hi_overwrite"
    /\ \E overwrite \in Answers, rmOk \in BOOLEAN :
         /\ Asked(OverwritePrompt, overwrite)
         /\ IF ~IsY(overwrite)
            THEN pc' = "exit" /\ UNCHANGED <<env, configFile>>
            ELSE IF rmOk
            THEN /\ env' = [env EXCEPT !.toolDir = FALSE, !.toolScript = FALSE]
                 /\ configFile' = NoFile
                 /\ pc' = "hi_mkdir"
            ELSE /\ configFile' \in {configFile, NoFile}
                 /\ \E script \in {env.toolScript, FALSE} :
                      env' = [env EXCEPT !.toolScript = script]
                 /\ pc' = "exit"
    /\ UNCHANGED <<stack, called, args, menuAnswers, isOpMode, gitignore, git, mem, ret,
                   cfgOut, giRuns>>

\* fs.mkdirSync(toolDirInProject, {recursive})
hiMkdir ==
    /\ pc = "hi_mkdir"
    /\ \E mkdirOk \in BOOLEAN :
         IF mkdirOk
         THEN env' = [env EXCEPT !.toolDir = TRUE] /\ pc' = "hi_copy"
         ELSE pc' = "exit" /\ UNCHANGED env
    /\ UNCHANGED <<stack, called, args, menuAnswers, isOpMode, configFile, gitignore, git, mem,
                   ret, log, cfgOut, giRuns>>

\* fs.copyFileSync(SCRIPT_PATH, toolScriptInProject), then createProjectConfig
hiCopy ==
    /\ pc = "hi_copy"
    /\ \E copyOk \in BOOLEAN :
         IF copyOk
         THEN /\ env' = [env EXCEPT !.toolScript = TRUE]
              /\ Call("createProjectConfig", "cc_start", "hi_gitignore")
         ELSE pc' = "exit" /\ UNCHANGED <<env, stack, called>>
    /\ UNCHANGED <<args, menuAnswers, isOpMode, configFile, gitignore, git, mem, ret, log,
                   cfgOut, giRuns>>

hiGitignore ==
    /\ pc = "hi_gitignore"
    /\ \E readOk \in BOOLEAN, writeOk \in BOOLEAN :
         gitignore' = updateProjectGitignore(gitignore, readOk, writeOk)
    /\ pc' = "hi_setup"
    /\ UNCHANGED <<stack, called, args, menuAnswers, isOpMode, env, configFile, git, mem, ret,
                   log, cfgOut, giRuns>>

\* execSync(`node "<toolScriptInProject>" --init`): the installed copy runs
\* in operation mode; execOk = FALSE is the child not starting.
hiSetup ==
    /\ pc = "hi_setup"
    /\ \E runSetupNow \in Answers, execOk \in BOOLEAN :
         /\ Asked(SetupNowPrompt, runSetupNow)
         /\ IF IsY(runSetupNow) /\ execOk
            THEN /\ isOpMode' = TRUE
                 /\ args' = [cmd |-> "--init", msg |-> <<>>]
                 /\ pc' = "main"
            ELSE pc' = "exit" /\ UNCHANGED <<isOpMode, args>>
    /\ UNCHANGED <<stack, called, menuAnswers, env, configFile, gitignore, git, mem, ret,
                   cfgOut, giRuns>>

handleInstallMode == hiStart \/ hiOverwrite \/ hiMkdir \/ hiCopy \/ hiGitignore \/ hiSetup

\* ------------------------------------------- the config store on its own
CharAtoms == {"a", "n", DQ, BSL, NL}
Strs == SeqsUpTo(CharAtoms, MaxStr)
IgnoreLists == SeqsUpTo({<<".env*">>, <<"a", BSL>>}, 2)
Attempts == {0, 5, 120, 0 - 3}

ConfigInputs ==
    { << StrEntry(<<"projectName">>, p),
         StrEntry(<<"githubUsername">>, u),
         StrEntry(<<"backupBranch">>, <<"main">>),
         ArrEntry(<<"autoIgnoreFiles">>, l),
         NumEntry(<<"maxBackupAttempts">>, m),
         StrEntry(<<"createdAt">>, <<"2025-01-01", SP, "00:00:00">>),
         StrEntry(<<"version">>, <<"2.7-nodejs-console-quieter">>) >> :
      p \in Strs, u \in {<<>>, <<"a", DQ>>}, l \in IgnoreLists, m \in Attempts }

\* What the variables a specification does not use stay at.
Idle ==
    /\ stack = <<>> /\ args = NoArgs /\ menuAnswers = <<>>
    /\ log = <<>> /\ called = <<>> /\ cfgOut = Null /\ giRuns = <<>>
    /\ ret = NoRet /\ env = QuietEnv

NoGit ==
    [isRepo |-> FALSE, inWorkTree |-> FALSE, hasOrigin |-> FALSE, commits |-> <<>>,
     branches |-> <<>>, head |-> <<"main">>, detachedAt |-> 0, tracking |-> <<>>,
     remote |-> <<>>, index |-> {}, wt |-> {}, identity |-> NoIdentity, origin |-> <<>>]

InitConfig ==
    /\ Idle
    /\ pc = "rt_update"
    /\ isOpMode \in BOOLEAN
    /\ configFile \in {NoFile, File(<<"x">>)}
    /\ gitignore = NoFile
    /\ git = NoGit
    /\ \E c \in ConfigInputs : mem = [NoMem EXCEPT !.config = Obj(c)]

RoundTripUpdate ==
    /\ pc = "rt_update"
    /\ \E ioOk \in BOOLEAN :
         LET r == updateConfig(configFile, mem.config.obj, isOpMode, ioOk)
         IN  configFile' = r.file /\ ret' = Returned(r.ret, <<>>)
    /\ pc' = "rt_read"
    /\ UNCHANGED <<stack, args, menuAnswers, isOpMode, env, gitignore, git, mem, log, called,
                   cfgOut, giRuns>>

RoundTripRead ==
    /\ pc = "rt_read"
    /\ \E ioOk \in BOOLEAN : cfgOut' = readConfig(configFile, isOpMode, ioOk)
    /\ pc' = "rt_done"
    /\ UNCHANGED <<stack, args, menuAnswers, isOpMode, env, configFile, gitignore, git, mem, ret,
                   log, called, giRuns>>

NextConfig == RoundTripUpdate \/ RoundTripRead

SpecConfig == InitConfig /\ [][NextConfig]_vars

\* C4: after a successful updateConfig(c), readConfig() returns an object
\* identical to c (unless reading the file itself fails).
ConfigRoundTrip ==
    /\ (pc \in {"rt_read", "rt_done"} /\ ret.b) => readConfig(configFile, isOpMode, TRUE) = mem.config
    /\ (pc = "rt_done" /\ ret.b /\ ~cfgOut.null) => cfgOut = mem.config

ConfigRoundTripWitness ==
    /\ pc = "rt_done" /\ ret.b /\ ~cfgOut.null
    /\ Get(cfgOut.obj, <<"projectName">>).s = <<BSL, DQ>>
    /\ Len(Get(cfgOut.obj, <<"autoIgnoreFiles">>).a) = 2

\* ---------------------------------------------- .gitignore on its own
GiAlphabet == {NL, "#", SP, TOOL_DIR, "/", ".env*", "x"}

InitGitignore ==
    /\ Idle
    /\ pc = "gi_apply"
    /\ isOpMode = FALSE
    /\ configFile = NoFile
    /\ gitignore \in {NoFile} \cup {File(c) : c \in SeqsUpTo(GiAlphabet, MaxLen)}
    /\ git = NoGit
    /\ mem = NoMem

ApplyGitignore ==
    /\ pc = "gi_apply"
    /\ Len(giRuns) < 2
    /\ \E readOk \in BOOLEAN, writeOk \in BOOLEAN :
         /\ gitignore' = updateProjectGitignore(gitignore, readOk, writeOk)
         /\ giRuns' = Append(giRuns, [before |-> gitignore, after |-> gitignore',
                                      io |-> readOk /\ writeOk])
    /\ UNCHANGED <<pc, stack, args, menuAnswers, isOpMode, env, configFile, git, mem, ret, log,
                   called, cfgOut>>

NextGitignore == ApplyGitignore

SpecGitignore == InitGitignore /\ [][NextGitignore]_vars

\* C5: a second run of updateProjectGitignore leaves the file as the first
\* run left it, whatever .gitignore was at the start (the first run having
\* met no file-system error).
GitignoreIdempotent ==
    (Len(giRuns) = 2 /\ giRuns[1].io) => giRuns[2].after = giRuns[1].after

GitignoreIdempotentWitness ==
    /\ Len(giRuns) = 2 /\ giRuns[1].io /\ giRuns[2].io
    /\ giRuns[1].before.exists
    /\ Includes(giRuns[1].before.content, <<".env*">>)
    /\ giRuns[1].after # giRuns[1].before

\* ------------------------------------------------- the backup operations
BranchNames ==
    {<<"main">>, <<"feature">>, <<"nb">>, <<"my", "-", "nb">>, <<"temp-clean-branch">>,
     <<"x", "/", "main">>}

NoRefs == [b \in BranchNames |-> 0]

Me == [name |-> <<"alice">>, email |-> <<"alice", "@users.noreply.github.com">>]

\* The content unit that stands for the uncommitted work.
Work == 0

\* The object stores of n commits by the given authors: a commit's parent is
\* the commit before it or the one before that (none, for want of one), and a
\* commit adds one content unit to its parent's tree.
Histories(n, authors) ==
    { [i \in 1..n |-> [parent |-> h[i].parent, author |-> h[i].author,
                        tree |-> Ancestors(h, i)]] :
      h \in {x \in [1..n -> [parent : 0..(n - 1), author : authors]] :
                \A i \in 1..n : x[i].parent < i /\ x[i].parent >= i - 2} }

\* The linear history of n commits by one author.
Chain(n, author) ==
    [i \in 1..n |-> [parent |-> i - 1, author |-> author, tree |-> 1..i]]

ValidConfig(projectName, githubUsername) ==
    File(ConfigText(
        [DefaultConfig(projectName, <<"2025-01-01", SP, "00:00:00">>)
            EXCEPT ![2] = StrEntry(GithubUsername, githubUsername)]))

Garbage == File(<<"{", DQ, "projectName", DQ>>)

ConfigFileOf(kind) ==
    IF kind = "valid" THEN ValidConfig(<<"proj">>, <<"alice">>)
    ELSE IF kind = "noname" THEN ValidConfig(<<>>, <<"alice">>)
    ELSE IF kind = "garbage" THEN Garbage
    ELSE NoFile

ConfigKinds == {"valid", "noname", "garbage", "none"}

BackupArgs ==
    {[cmd |-> "--qbackup", msg |-> <<>>], [cmd |-> "--commit", msg |-> <<>>],
     [cmd |-> "--commit", msg |-> <<"fix">>], [cmd |-> "--menu", msg |-> <<>>]}

BackupMenuAnswers == {<<"1">>, <<"2">>, <<"3">>, <<"9", "3">>, <<"0">>}

Repo(w, hasOrigin, h, main, feature, detached, rmain, rother, dirty, identity) ==
    [isRepo |-> w[1], inWorkTree |-> w[2], hasOrigin |-> hasOrigin, commits |-> h,
     branches |-> [NoRefs EXCEPT ![<<"main">>] = main, ![<<"feature">>] = feature],
     head |-> IF detached THEN Detached ELSE <<"main">>,
     detachedAt |-> IF detached THEN main ELSE 0,
     tracking |-> [NoRefs EXCEPT ![<<"main">>] = rmain, ![<<"x", "/", "main">>] = rother],
     remote |-> [NoRefs EXCEPT ![<<"main">>] = rmain, ![<<"x", "/", "main">>] = rother],
     index |-> IF main = 0 THEN {} ELSE h[main].tree,
     wt |-> (IF main = 0 THEN {} ELSE h[main].tree) \cup dirty,
     identity |-> identity,
     origin |-> IF hasOrigin THEN GithubUrl(<<"alice">>, <<"proj">>) ELSE <<>>]

Count(b) == IF b THEN 1 ELSE 0

\* The starting states: a project with MaxCommits commits in any shape, its
\* branch main at any of them and the server's main at any or none, with or
\* without uncommitted work; and, on the linear history, one less usual
\* circumstance at a time (no or a broken config file, no repository or a
\* parent directory's, no commit at all, a detached HEAD, no identity, no
\* remote, other branches here or on the server).
BackupHistories == Histories(MaxCommits, {Me})

BackupConfigs == [k \in ConfigKinds |-> ConfigFileOf(k)]

InitRepo(kind) ==
    \E n \in {0, MaxCommits} :
    \E w \in {<<TRUE, TRUE>>, <<FALSE, TRUE>>, <<FALSE, FALSE>>}, hasOrigin \in BOOLEAN,
       main \in (IF n = 0 THEN {0} ELSE 1..n), feature \in (IF n = 0 THEN {0} ELSE 0..1),
       detached \in (IF n = 0 THEN {FALSE} ELSE BOOLEAN),
       rmain \in 0..n, rother \in (IF n = 0 THEN {0} ELSE 0..1),
       dirty \in {{}, {Work}}, identity \in {Me, NoIdentity} :
      LET unusual == Count(kind # "valid") + Count(~w[1]) + Count(identity = NoIdentity)
                     + Count(detached) + Count(~hasOrigin) + Count(rother # 0)
                     + Count(feature # 0) + Count(n = 0)
      IN  /\ unusual <= 1
          /\ hasOrigin \/ (rmain = 0 /\ rother = 0)
          /\ \E h \in (IF unusual = 0 THEN BackupHistories ELSE {Chain(n, Me)}) :
               git = Repo(w, hasOrigin, h, main, feature, detached, rmain, rother, dirty,
                          identity)

Init ==
    /\ pc = "main"
    /\ stack = <<>>
    /\ isOpMode = TRUE
    /\ gitignore = NoFile
    /\ mem = NoMem
    /\ ret = NoRet
    /\ log = <<>>
    /\ called = <<>>
    /\ cfgOut = Null
    /\ giRuns = <<>>
    /\ env = QuietEnv
    /\ args \in BackupArgs
    /\ menuAnswers \in IF args.cmd = "--menu" THEN BackupMenuAnswers ELSE {<<>>}
    /\ \E kind \in ConfigKinds : configFile = BackupConfigs[kind] /\ InitRepo(kind)

Next ==
    \/ handleOperationMode
    \/ opShowBackupMenu
    \/ opQuickBackup
    \/ opCommitWithMessage
    \/ opBackupToNewBranch
    \/ checkRemoteSync
    \/ getCurrentGitBranch
    \/ getGitStatus
    \/ displaySyncStatus
    \/ commitAndPush

Spec == Init /\ [][Next]_vars

\* ------------------------------------------------------------- --init
Placeholder == [name |-> <<"GitHub Backup User">>, email |-> <<"backup@example.com">>]

InitBasenames == {<<"proj">>, <<"my", SP, "proj", "#">>}

\* The config files --init may find: none, one that does not parse, and
\* ones written earlier, for this or another directory name, with no, this
\* or another GitHub user.
InitConfigFiles ==
    {NoFile, Garbage}
    \cup {ValidConfig(n, u) : n \in {<<"proj">>, <<"old">>}, u \in {<<>>, <<"alice">>, <<"bob">>}}

InitOrigins ==
    {<<>>, GithubUrl(<<"alice">>, <<"proj">>), GithubUrl(<<"bob">>, <<"proj">>),
     <<"git@", "github.com", ":", "alice", "/", "my", ".", "proj", ".git">>,
     <<"https://", "gitlab.com", "/", "alice", "/", "proj">>}

InitGhRepos ==
    {{}, {<<<<"alice">>, <<"proj">>>>}, {<<<<"bob">>, <<"proj">>>>},
     {<<<<"alice">>, <<"proj">>>>, <<<<"alice">>, <<"proj", "-", "1">>>>}}

InitAccounts == {Alice, Account(<<"alice">>, <<>>, <<>>)}

\* One run of --init: the usual situation (a repository with one commit and
\* no origin, a usable identity, gh installed and logged in, no config file)
\* and every situation that differs from it in at most MaxUnusual respects.
InitSituations ==
    [configFile : InitConfigFiles, basename : InitBasenames,
     gh : {<<TRUE, TRUE>>, <<TRUE, FALSE>>, <<FALSE, FALSE>>},
     ghUser : InitAccounts, ghRepos : InitGhRepos,
     w : {<<TRUE, TRUE>>, <<FALSE, TRUE>>, <<FALSE, FALSE>>}, n : {1, 0},
     origin : InitOrigins, dirty : {{}, {Work}},
     identity : {Me, Placeholder, NoIdentity}]

Usual ==
    [configFile |-> NoFile, basename |-> <<"proj">>, gh |-> <<TRUE, TRUE>>,
     ghUser |-> Alice, ghRepos |-> {}, w |-> <<TRUE, TRUE>>, n |-> 1,
     origin |-> <<>>, dirty |-> {}, identity |-> Me]

Unusual(s) == Cardinality({f \in DOMAIN Usual : s[f] # Usual[f]})

InitInit ==
    /\ pc = "main"
    /\ stack = <<>>
    /\ isOpMode = TRUE
    /\ gitignore = NoFile
    /\ mem = NoMem
    /\ ret = NoRet
    /\ log = <<>>
    /\ called = <<>>
    /\ cfgOut = Null
    /\ giRuns = <<>>
    /\ menuAnswers = <<>>
    /\ args = [cmd |-> "--init", msg |-> <<>>]
    /\ \E s \in InitSituations :
         /\ Unusual(s) <= MaxUnusual
         /\ s.w[2] \/ (s.n = 0 /\ s.origin = <<>>)
         /\ configFile = s.configFile
         /\ env = Env(s.basename, s.gh[1], s.gh[2], s.ghUser, s.ghRepos)
         /\ git = [Repo(s.w, s.origin # <<>>, Chain(s.n, Me), s.n, 0, FALSE, 0, 0,
                        s.dirty, s.identity)
                     EXCEPT !.origin = s.origin]

NextInit ==
    \/ handleOperationMode
    \/ opInitBackup
    \/ ccStart
    \/ setupGitRepo
    \/ setupGitIdentity
    \/ setupGhCli
    \/ setupProjectConfigAndGhUser
    \/ setupRemoteRepo

SpecInit == InitInit /\ [][NextInit]_vars

\* ------------------------------------------------------- --clean-history
Bob == [name |-> <<"Bob">>, email |-> <<"bob@mail">>]

CleanHistories == Histories(MaxCommits, {Me, Bob})

CleanConfigFiles ==
    {NoFile, ValidConfig(<<"proj">>, <<"alice">>), ValidConfig(<<"proj">>, <<>>)}

\* One run of --clean-history or --clean-all. The usual situation is a repository of
\* MaxCommits commits by alice or Bob in any shape, with any placing of main,
\* feature and origin/main, a clean working tree, a branch checked out, and
\* alice or Bob as the committer; the others differ from a linear history
\* with only main in at most MaxUnusual respects.
InitClean ==
    /\ pc = "main"
    /\ stack = <<>>
    /\ isOpMode = TRUE
    /\ gitignore = NoFile
    /\ mem = NoMem
    /\ ret = NoRet
    /\ log = <<>>
    /\ called = <<>>
    /\ cfgOut = Null
    /\ giRuns = <<>>
    /\ menuAnswers = <<>>
    /\ env = QuietEnv
    /\ args \in [cmd : {"--clean-history", "--clean-all"}, msg : {<<>>}]
    /\ configFile \in CleanConfigFiles
    /\ \E n \in {0, MaxCommits} :
       \E w \in {<<TRUE, TRUE>>, <<FALSE, FALSE>>}, hasOrigin \in BOOLEAN,
          main \in (IF n = 0 THEN {0} ELSE 1..n), feature \in 0..n, rmain \in 0..n,
          temp \in {0, n}, detached \in (IF n = 0 THEN {FALSE} ELSE BOOLEAN),
          dirty \in {{}, {Work}}, identity \in {Me, Bob, NoIdentity} :
       \E unusual \in {Count(configFile # ValidConfig(<<"proj">>, <<"alice">>)) + Count(~w[1])
                       + Count(identity = NoIdentity) + Count(detached) + Count(dirty # {})
                       + Count(n = 0) + Count(temp # 0)} :
         /\ unusual <= MaxUnusual
         /\ hasOrigin \/ rmain = 0
         /\ unusual = 0 \/ (main = n /\ feature = 0 /\ rmain \in {0, n})
         /\ \E h \in (IF unusual = 0 THEN CleanHistories
                      ELSE {Chain(n, Me), Chain(n, Bob)}) :
              git = [Repo(w, hasOrigin, h, main, feature, detached, rmain, 0, dirty, identity)
                       EXCEPT !.branches[TempCleanBranch] = temp]

NextClean ==
    \/ handleOperationMode
    \/ getCurrentGitBranch
    \/ opCleanOldUserCommits
    \/ opCleanAllCommits

SpecClean == InitClean /\ [][NextClean]_vars

\* ------------------------------------------ the backup and clean commands
\* One run of any of --qbackup, --commit, --menu, --clean-history, --clean-all.
InitOps == Init \/ InitClean

NextOps ==
    \/ handleOperationMode
    \/ opShowBackupMenu
    \/ opQuickBackup
    \/ opCommitWithMessage
    \/ opBackupToNewBranch
    \/ checkRemoteSync
    \/ getCurrentGitBranch
    \/ getGitStatus
    \/ displaySyncStatus
    \/ commitAndPush
    \/ opCleanOldUserCommits
    \/ opCleanAllCommits

SpecOps == InitOps /\ [][NextOps]_vars

\* ------------------------------------------------------------ dispatcher
\* One start of the tool in operation mode with any first argument, followed
\* up to where the handler begins; what the handlers do is the other
\* specifications.
DispatchCommands ==
    {"--init", "--qbackup", "--commit", "--menu", "--clean-history", "--clean-all",
     "--delete-repo", "--delrepo", "--help", "", "--bogus", "init"}

InitDispatch ==
    /\ pc = "main"
    /\ stack = <<>>
    /\ isOpMode = TRUE
    /\ gitignore = NoFile
    /\ mem = NoMem
    /\ ret = NoRet
    /\ log = <<>>
    /\ called = <<>>
    /\ cfgOut = Null
    /\ giRuns = <<>>
    /\ env = QuietEnv
    /\ menuAnswers = <<>>
    /\ args \in [cmd : DispatchCommands, msg : {<<>>, <<"fix">>}]
    /\ \E kind \in ConfigKinds : configFile = BackupConfigs[kind] /\ InitRepo(kind)

NextDispatch == handleOperationMode

SpecDispatch == InitDispatch /\ [][NextDispatch]_vars

\* ----------------------------------------------------------- --delete-repo
\* One run of --delete-repo or --delrepo: gh installed or not, logged in or
\* not, its token with or without the delete_repo scope, GitHub with the
\* repositories alice/proj and bob/proj or without, and origin at one of
\* them or absent.
InitDelete ==
    /\ pc = "main"
    /\ stack = <<>>
    /\ isOpMode = TRUE
    /\ gitignore = NoFile
    /\ mem = NoMem
    /\ ret = NoRet
    /\ log = <<>>
    /\ called = <<>>
    /\ cfgOut = Null
    /\ giRuns = <<>>
    /\ menuAnswers = <<>>
    /\ configFile = ValidConfig(<<"proj">>, <<"alice">>)
    /\ args \in [cmd : {"--delete-repo", "--delrepo"}, msg : {<<>>}]
    /\ \E gh \in {<<TRUE, TRUE>>, <<TRUE, FALSE>>, <<FALSE, FALSE>>}, deleteScope \in BOOLEAN,
          ghRepos \in {{}, {<<<<"alice">>, <<"proj">>>>},
                       {<<<<"alice">>, <<"proj">>>>, <<<<"bob">>, <<"proj">>>>}} :
         env = [Env(<<"proj">>, gh[1], gh[2], Alice, ghRepos)
                  EXCEPT !.deleteScope = deleteScope /\ gh[2]]
    /\ \E origin \in {<<>>, GithubUrl(<<"alice">>, <<"proj">>), GithubUrl(<<"bob">>, <<"proj">>)} :
         git = [Repo(<<TRUE, TRUE>>, origin # <<>>, Chain(1, Me), 1, 0, FALSE, 0, 0, {}, Me)
                  EXCEPT !.origin = origin]

NextDelete ==
    \/ handleOperationMode
    \/ opDeleteRemoteRepo

SpecDelete == InitDelete /\ [][NextDelete]_vars

\* ------------------------------------------------------------- installer
\* One run of the installer on a project directory: a repository with one
\* commit, with or without a tool directory from an earlier installation,
\* which then holds the script and maybe a config file.
InstallConfigFiles ==
    {NoFile, Garbage, ValidConfig(<<"proj">>, <<>>), ValidConfig(<<"proj">>, <<"alice">>)}

InitInstall ==
    /\ pc = "main"
    /\ stack = <<>>
    /\ isOpMode = FALSE
    /\ mem = NoMem
    /\ ret = NoRet
    /\ log = <<>>
    /\ called = <<>>
    /\ cfgOut = Null
    /\ giRuns = <<>>
    /\ menuAnswers = <<>>
    /\ args \in [cmd : {""}, msg : {<<>>, <<"proj">>}]
    /\ gitignore \in {NoFile, File(<<"node_modules/", NL>>),
                      File(GeneratedHeader \o toolGitignoreContent)}
    /\ \E toolDir \in BOOLEAN :
         /\ env = [QuietEnv EXCEPT !.toolDir = toolDir, !.toolScript = toolDir]
         /\ configFile \in (IF toolDir THEN InstallConfigFiles ELSE {NoFile})
    /\ \E hasOrigin \in BOOLEAN :
         git = Repo(<<TRUE, TRUE>>, hasOrigin, Chain(1, Me), 1, 0, FALSE, 0, 0, {}, Me)

\* The run is followed up to where the installed copy is started with
\* --init; what that run does from there is SpecInit.
NextInstall ==
    \/ handleInstallMode
    \/ ccStart

SpecInstall == InitInstall /\ [][NextInstall]_vars

\* ---------------------------------------------------------- whole program
\* The --menu options that Init leaves out: pull, the two cleanings, and a
\* pull after an option outside 0-6.
RestMenuAnswers == {<<"4">>, <<"5">>, <<"6">>, <<"7", "4">>}

InitRestMenu ==
    /\ pc = "main"
    /\ stack = <<>>
    /\ isOpMode = TRUE
    /\ gitignore = NoFile
    /\ mem = NoMem
    /\ ret = NoRet
    /\ log = <<>>
    /\ called = <<>>
    /\ cfgOut = Null
    /\ giRuns = <<>>
    /\ env = QuietEnv
    /\ args = [cmd |-> "--menu", msg |-> <<>>]
    /\ menuAnswers \in RestMenuAnswers
    /\ \E kind \in ConfigKinds : configFile = BackupConfigs[kind] /\ InitRepo(kind)

\* The installer run over an earlier installation, on a machine without gh.
InitInstallNoGh ==
    /\ pc = "main"
    /\ stack = <<>>
    /\ isOpMode = FALSE
    /\ mem = NoMem
    /\ ret = NoRet
    /\ log = <<>>
    /\ called = <<>>
    /\ cfgOut = Null
    /\ giRuns = <<>>
    /\ menuAnswers = <<>>
    /\ args = [cmd |-> "", msg |-> <<>>]
    /\ gitignore = NoFile
    /\ env = Env(<<"proj">>, FALSE, FALSE, Alice, {})
    /\ configFile = ValidConfig(<<"proj">>, <<"alice">>)
    /\ git = Repo(<<TRUE, TRUE>>, FALSE, Chain(1, Me), 1, 0, FALSE, 0, 0, {}, Me)

\* The situation of a starting state of --init.
SituationOf ==
    [configFile |-> configFile, basename |-> env.basename,
     gh |-> <<env.ghInstalled, env.ghAuthed>>, ghUser |-> env.ghUser, ghRepos |-> env.ghRepos,
     w |-> <<git.isRepo, git.inWorkTree>>, n |-> Len(git.commits), origin |-> git.origin,
     dirty |-> git.wt \ git.index, identity |-> git.identity]

\* Of the situations of --init: the usual one, no repository yet, a GitHub
\* account with no public e-mail, and an origin at a repository of this or
\* of another account.
SelectedSituation ==
    \/ Unusual(SituationOf) = 0
    \/ ~git.isRepo
    \/ env.ghUser # Alice
    \/ git.origin \in {GithubUrl(<<"alice">>, <<"proj">>), GithubUrl(<<"bob">>, <<"proj">>)}

\* A clean repository whose main, pushed, is at the newest commit.
PlainMixedHistory ==
    /\ git.identity = Me /\ git.wt = git.index
    /\ git.remote[<<"main">>] = MaxCommits /\ git.branches[<<"main">>] = MaxCommits
    /\ git.branches[<<"feature">>] = 0

LinearHistory == git.commits \in {<<>>, Chain(MaxCommits, Me), Chain(MaxCommits, Bob)}

\* Every invocation: each subcommand and the installer. Of the starting
\* states above, those with a linear history (for the cleanings also one
\* history of both authors), the selected situations of --init, the
\* dispatcher's commands that only show the help, and the installer whose
\* --init ends at the missing gh.
InitAll ==
    \/ Init /\ LinearHistory
    \/ InitRestMenu /\ LinearHistory /\ configFile = BackupConfigs["valid"]
    \/ InitInit /\ SelectedSituation
    \/ InitClean /\ (LinearHistory \/ PlainMixedHistory)
    \/ InitDelete
    \/ InitDispatch /\ CommandTarget(args.cmd) = "exit"
    \/ InitInstallNoGh

NextAll ==
    \/ handleOperationMode
    \/ handleInstallMode
    \/ opShowBackupMenu
    \/ opInitBackup
    \/ ccStart
    \/ setupGitRepo
    \/ setupGitIdentity
    \/ setupGhCli
    \/ setupProjectConfigAndGhUser
    \/ setupRemoteRepo
    \/ opQuickBackup
    \/ opCommitWithMessage
    \/ opBackupToNewBranch
    \/ checkRemoteSync
    \/ pullChanges
    \/ getCurrentGitBranch
    \/ getGitStatus
    \/ displaySyncStatus
    \/ commitAndPush
    \/ opCleanOldUserCommits
    \/ opCleanAllCommits
    \/ opDeleteRemoteRepo

SpecAll == InitAll /\ [][NextAll]_vars

\* Each step of NextAll is an external command that returns, a prompt that
\* is answered or a step of the program itself: none is put off for ever.
SpecAllFair == SpecAll /\ WF_vars(NextAll)

\* ------------------------------------------------ what the claims speak of
Last(s) == s[Len(s)]

\* getGitStatus has just given its status back to the handler that called it.
GsReturned == pc \in {"qb_status", "cm_status", "rs_status"}

\* The entries of the log of that command.
EntriesOf(cmd) == {i \in 1..Len(log) : log[i].cmd = cmd}

RanOk(cmd) == \E i \in EntriesOf(cmd) : log[i].ok

RanFailed(cmd) == \E i \in EntriesOf(cmd) : ~log[i].ok

NoCommandFailed == \A i \in 1..Len(log) : log[i].ok

SixStates == {"uptodate", "behind", "ahead", "diverged", "no_remote", "error"}

GsCommands ==
    {"git status --porcelain", "git remote update", "git rev-parse HEAD",
     "git ls-remote --heads origin", "git rev-parse origin/", "git merge-base HEAD origin/"}

\* The branch of that name is not on the server.
RemoteBranchAbsent == git.remote[mem.branchName] = 0

\* C1 as stated: the sync value getGitStatus returns is one of the six states
\* uptodate, behind, ahead, diverged, no_remote, error; it is no_remote
\* whenever the remote branch is absent and uptodate whenever the local hash
\* equals the remote hash.
SyncOneOfSix ==
    GsReturned =>
      /\ mem.status.sync \in SixStates
      /\ (RanOk("git ls-remote --heads origin") /\ RemoteBranchAbsent /\ mem.status.sync # "error")
            => mem.status.sync = "no_remote"
      /\ (RanOk("git merge-base HEAD origin/") /\ mem.status.localHash = mem.status.remoteHash)
            => mem.status.sync = "uptodate"

\* C1, amended: without a .git directory in the project root getGitStatus runs
\* no command and returns the sync value unknown; with one, the sync value is
\* one of the six states, it is no_remote whenever the listing of the remote
\* heads succeeds and names no head that is the branch or ends in /branch, and
\* it is uptodate whenever no command fails and the local hash equals the
\* remote hash.
SyncOneOfSeven ==
    GsReturned =>
      /\ mem.status.isRepo = git.isRepo
      /\ ~git.isRepo => /\ mem.status.sync = "unknown"
                        /\ \A c \in GsCommands : EntriesOf(c) = {}
      /\ git.isRepo => mem.status.sync \in SixStates
      /\ (RanOk("git ls-remote --heads origin") /\ LsRemoteMatches(git, mem.branchName) = {})
            => mem.status.sync = "no_remote"
      /\ (RanOk("git merge-base HEAD origin/") /\ mem.status.localHash = mem.status.remoteHash)
            => mem.status.sync = "uptodate"

SyncUnknownWitness ==
    GsReturned /\ ~git.isRepo /\ mem.status.sync = "unknown" /\ RemoteBranchAbsent

\* C2: when the remote branch exists and no command fails, the hashes are
\* those of HEAD, of the remote branch and of their merge base, and the sync
\* value follows the table in priority order: local = remote uptodate, else
\* local = base behind, else remote = base ahead, else diverged.
DecisionTableOrder ==
    (GsReturned /\ RanOk("git merge-base HEAD origin/")) =>
      LET l == mem.status.localHash
          r == mem.status.remoteHash
          b == mem.status.baseHash
          sync == mem.status.sync
      IN  /\ l = HeadCommit(git) /\ r = git.remote[mem.branchName]
          /\ b \in Ancestors(git.commits, l) \cap Ancestors(git.commits, r)
          /\ l = r => sync = "uptodate"
          /\ (l # r /\ l = b) => sync = "behind"
          /\ (l # r /\ l # b /\ r = b) => sync = "ahead"
          /\ (l # r /\ l # b /\ r # b) => sync = "diverged"
          /\ sync = "ahead" => (r = b /\ l # r /\ l # b)

DecisionTableWitness ==
    /\ GsReturned /\ NoCommandFailed /\ mem.status.sync = "behind"
    /\ mem.status.localHash = mem.status.baseHash
    /\ mem.status.remoteHash # mem.status.localHash

\* C3: once a command run by getGitStatus has failed, the sync value is error,
\* nothing was thrown at the caller, and the handler went on to its next step.
CommandFailureIsError ==
    (\E c \in GsCommands : RanFailed(c)) =>
      /\ mem.status.sync = "error"
      /\ ~ret.thrown
      /\ pc \notin {"gs_status", "gs_update", "gs_local", "gs_lsremote", "gs_remote", "gs_base"}
      /\ pc = "exit" => Last(called) \in {"displaySyncStatus", "commitAndPush"}

CommandFailureWitness ==
    /\ GsReturned /\ mem.status.sync = "error"
    /\ Last(log) = Entry("git merge-base HEAD origin/", mem.branchName, FALSE)

EmptyCommitPrompt == "Do you want to create an empty commit anyway? (Y/N): "

\* The user answered the empty-commit prompt with something other than a yes.
DeclinedEmptyCommit ==
    \E i \in EntriesOf(EmptyCommitPrompt) :
        log[i].arg = <<>> \/ log[i].arg[1] \notin {"y", "Y"}

\* C7: once the user has declined the empty-commit prompt (there being no
\* local changes), git commit is never run, the repository holds the commits
\* it started with, and displaySyncStatus is entered.
DeclinedMeansNoCommit ==
    DeclinedEmptyCommit =>
      /\ EntriesOf("git commit -m") = {}
      /\ Len(git.commits) = MaxCommits
      /\ Last(called) = "displaySyncStatus"
      /\ pc \in {"ds_start", "exit"}

DeclinedWitness ==
    /\ args = [cmd |-> "--commit", msg |-> <<>>]
    /\ DeclinedEmptyCommit /\ ~mem.status.hasChanges
    /\ pc = "exit" /\ Last(called) = "displaySyncStatus"

CpLabels == {"cp_add", "cp_commit", "cp_push"}

\* commitAndPush has returned to the handler that called it.
CpReturned == called # <<>> /\ Last(called) = "commitAndPush" /\ pc \notin CpLabels

AddOk == Entry("git add -A", <<>>, TRUE)

\* C9: commitAndPush runs git add -A, then git commit, then git push; the
\* commit runs only right after a successful add and the push only right
\* after a successful commit; after a failed step none of the later ones is
\* run; it returns true only when the push succeeded; and what succeeded
\* before a failure stays (the staged index, the new commit).
StageCommitPushInOrder ==
    /\ pc = "cp_commit" => Last(log) = AddOk
    /\ pc = "cp_push" => /\ Last(log) = Entry("git commit -m", mem.commitMessage, TRUE)
                         /\ log[Len(log) - 1] = AddOk
    /\ \A i \in EntriesOf("git add -A") :
         ~log[i].ok => \A j \in (i + 1)..Len(log) :
                          log[j].cmd \notin {"git commit -m", "git push origin"}
    /\ \A i \in EntriesOf("git commit -m") :
         /\ i > 1 /\ log[i - 1] = AddOk
         /\ ~log[i].ok => \A j \in (i + 1)..Len(log) : log[j].cmd # "git push origin"
    /\ CpReturned =>
         /\ ret.b = RanOk("git push origin")
         /\ ~ret.b = (\E c \in {"git add -A", "git commit -m", "git push origin"} : RanFailed(c))
         /\ Last(log) = Entry("git commit -m", mem.commitMessage, FALSE) => git.index = git.wt
         /\ Last(log) = Entry("git push origin", mem.branchName, FALSE) =>
              /\ Len(git.commits) = MaxCommits + 1
              /\ HeadCommit(git) = Len(git.commits)
              /\ git.index = HeadTree(git)

FailedPushWitness ==
    /\ CpReturned /\ ~ret.b /\ pc = "exit"
    /\ Last(log) = Entry("git push origin", mem.branchName, FALSE)
    /\ HeadCommit(git) = MaxCommits + 1

\* The push of the new branch by opBackupToNewBranch failed at entry i of the log.
NewBranchPushFailedAt(i) ==
    /\ mem.newBranchName # <<>>
    /\ i \in 1..Len(log)
    /\ log[i] = Entry("git push origin", mem.newBranchName, FALSE)

\* C10: when the push of the new branch has failed, opBackupToNewBranch next
\* runs git checkout <previous branch> and, that done, git branch -D <new
\* branch>; both done, it ends on the previous branch with the new branch gone.
NewBranchRolledBack ==
    \A i \in 1..Len(log) :
      (NewBranchPushFailedAt(i) /\ pc = "exit") =>
        /\ Len(log) > i
        /\ log[i + 1].cmd = "git checkout" /\ log[i + 1].arg = mem.previousBranch
        /\ log[i + 1].ok =>
             /\ Len(log) >= i + 2
             /\ log[i + 2].cmd = "git branch -D" /\ log[i + 2].arg = mem.newBranchName
             /\ log[i + 2].ok => /\ Len(log) = i + 2
                                 /\ git.head = mem.previousBranch
                                 /\ git.branches[mem.newBranchName] = 0

NewBranchRolledBackWitness ==
    /\ pc = "exit"
    /\ \E i \in 1..Len(log) : NewBranchPushFailedAt(i)
    /\ Last(log) = Entry("git branch -D", mem.newBranchName, TRUE)
    /\ git.head = mem.previousBranch /\ git.branches[mem.newBranchName] = 0

\* The file createProjectConfig writes for this project root.
DefaultConfigFile == File(JSONstringify(DefaultConfig(env.basename, env.now)))

CreateCalled == \E i \in 1..Len(called) : called[i] = "createProjectConfig"

\* C6: createProjectConfig leaves an existing config file as it is and, where
\* there is none, writes the default config whose projectName is the basename
\* of the project root (or, the write failing, nothing); opInitBackup, having
\* read the file so created, holds that config, keeps the file and goes on
\* to setupGitRepo.
InitCreatesDefaultConfig ==
    [][/\ (pc = "cc_start" /\ configFile.exists) => configFile' = configFile
       /\ (pc = "cc_start" /\ ~configFile.exists) =>
            /\ configFile' \in {NoFile, DefaultConfigFile}
            /\ Get(DefaultConfig(env.basename, env.now), ProjectName).s = env.basename
       /\ (pc = "in_created" /\ configFile = DefaultConfigFile /\ pc' # "exit") =>
            /\ mem'.config = Obj(DefaultConfig(env.basename, env.now))
            /\ pc' = "in_name"
       /\ (pc = "in_name" /\ CreateCalled /\ configFile = DefaultConfigFile) =>
            /\ Get(mem.config.obj, ProjectName).s = env.basename
            /\ configFile' = configFile
            /\ mem' = mem
            /\ pc' = "sg_start"]_vars

InitCreatesDefaultConfigWitness ==
    /\ pc = "sg_start"
    /\ CreateCalled
    /\ env.basename = <<"my", SP, "proj", "#">>
    /\ configFile = DefaultConfigFile
    /\ mem.config = Obj(DefaultConfig(env.basename, env.now))

\* --clean-history found commits, none of them the configured user's, the user
\* confirmed, and every command run since succeeded.
CleanConfirmed == \E i \in 1..Len(log) : log[i].cmd = ConfirmClean /\ IsY(log[i].arg)

CleanedWithNoneKept ==
    /\ pc = "exit"
    /\ \E i \in 1..Len(called) : called[i] = "opCleanOldUserCommits"
    /\ CleanConfirmed
    /\ mem.currentUserCommits = <<>>
    /\ NoCommandFailed

\* The author is the configured user by the test opCleanOldUserCommits applies.
AuthoredAs(author, currentUser) ==
    \/ author.name = currentUser
    \/ Includes(author.email, currentUser)

\* C8: after clean-history, confirmed, on a repository with no commit of the
\* configured user, the history of the current branch is exactly one commit
\* and its author is the configured user.
CleanLeavesOneCommitByUser ==
    CleanedWithNoneKept =>
      /\ Cardinality(Ancestors(git.commits, HeadCommit(git))) = 1
      /\ AuthoredAs(git.commits[HeadCommit(git)].author,
                    ConfigStr(mem.config, GithubUsername))

InCleanHistory == \E i \in 1..Len(called) : called[i] = "opCleanOldUserCommits"

\* The commits of the configured user among those the refs reach.
UserCommits(g, currentUser) ==
    {c \in ReachableFromRefs(g) : AuthoredAs(g.commits[c].author, currentUser)}

SetMin(S) == CHOOSE x \in S : \A y \in S : x <= y

\* C11: in clean-history, confirmed, a successful git reset --hard is run only
\* when some commit is the configured user's and some is not, and it leaves
\* the current branch at the earliest commit of the configured user, index
\* and files with it; a successful rename is reached only when no commit is
\* the configured user's, and it leaves the current branch, checked out, at
\* one parentless commit made of the files present, the temporary branch gone.
CleanHistoryResetOrOrphan ==
    (pc = "exit" /\ InCleanHistory) =>
      /\ RanOk("git reset --hard") =>
           /\ CleanConfirmed
           /\ mem.currentUserCommits # <<>> /\ mem.oldUserCommits # <<>>
           /\ UserCommits(git, ConfigStr(mem.config, GithubUsername)) # {}
           /\ HeadCommit(git) = SetMin(UserCommits(git, ConfigStr(mem.config, GithubUsername)))
           /\ git.head # Detached => /\ git.head = mem.currentBranch
                                     /\ git.branches[mem.currentBranch] = HeadCommit(git)
           /\ git.index = HeadTree(git) /\ git.wt = HeadTree(git)
           /\ ~RanOk("git checkout --orphan")
      /\ RanOk("git branch -m") =>
           /\ CleanConfirmed
           /\ mem.currentUserCommits = <<>> /\ mem.oldUserCommits # <<>>
           /\ git.head = mem.currentBranch
           /\ HeadCommit(git) # 0
           /\ git.commits[HeadCommit(git)].parent = 0
           /\ git.commits[HeadCommit(git)].tree = git.wt
           /\ git.branches[TempCleanBranch] = 0
           /\ ~RanOk("git reset --hard")

\* The reset went past a later commit of the configured user's.
CleanHistoryResetWitness ==
    /\ pc = "exit" /\ InCleanHistory
    /\ RanOk("git reset --hard")
    /\ Len(mem.currentUserCommits) >= 2
    /\ HeadCommit(git) < MaxCommits


\* C12: after a confirmed clean-history whose commands all succeeded and that
\* reset the branch, the history of the current branch holds every commit
\* that was the configured user's and no commit of another author.
CleanKeepsOnlyUserCommits ==
    (pc = "exit" /\ InCleanHistory /\ CleanConfirmed /\ NoCommandFailed
       /\ RanOk("git reset --hard")) =>
      /\ \A i \in 1..Len(mem.currentUserCommits) :
           CommitOfHash(git, mem.currentUserCommits[i])
             \in Ancestors(git.commits, HeadCommit(git))
      /\ \A c \in Ancestors(git.commits, HeadCommit(git)) :
           AuthoredAs(git.commits[c].author, ConfigStr(mem.config, GithubUsername))


ForcePush == "git push --force origin"

\* The commands that complete the local rewrite: the reset of clean-history,
\* and the rename that ends the orphan sequence of both operations.
RewriteDoneBefore(i) ==
    \E j \in 1..(i - 1) : log[j].ok /\ log[j].cmd \in {"git reset --hard", "git branch -m"}

ConfirmedBefore(i) ==
    \E j \in 1..(i - 1) : log[j].cmd \in {ConfirmClean, ConfirmCleanAll} /\ IsY(log[j].arg)

\* C13: in clean-history and clean-all, git push --force is run only after the
\* user confirmed the rewrite, the local rewrite succeeded, and the user
\* answered y to the force-push prompt asked just before it.
ForcePushOnlyOnRequest ==
    \A i \in 1..Len(log) :
      log[i].cmd = ForcePush =>
        /\ ConfirmedBefore(i)
        /\ RewriteDoneBefore(i)
        /\ i > 1
        /\ log[i - 1].cmd = PushClean
        /\ IsY(log[i - 1].arg)

\* clean-all force-pushed after the user asked for it.
ForcePushOnlyOnRequestWitness ==
    /\ pc = "exit"
    /\ args.cmd = "--clean-all"
    /\ \E i \in 1..Len(log) : log[i].cmd = ForcePush /\ log[i].ok
    /\ \E i \in 1..Len(log) : log[i].cmd = PushClean /\ IsY(log[i].arg)


CleanAllDone == args.cmd = "--clean-all" /\ RanOk("git branch -m")

\* C14: after a confirmed clean-all whose five commands succeeded, the branch
\* that was current is checked out under its own name, its history is one
\* parentless commit holding the working-tree files, and temp-clean-branch is
\* gone.
CleanAllLeavesOneCommit ==
    CleanAllDone =>
      /\ git.head = mem.currentBranch
      /\ git.branches[mem.currentBranch] # 0
      /\ git.commits[git.branches[mem.currentBranch]].parent = 0
      /\ git.commits[git.branches[mem.currentBranch]].tree = git.wt
      /\ Ancestors(git.commits, git.branches[mem.currentBranch])
           = {git.branches[mem.currentBranch]}
      /\ git.branches[TempCleanBranch] = 0

\* clean-all replaced a history of several commits and uncommitted work.
CleanAllLeavesOneCommitWitness ==
    /\ pc = "exit"
    /\ CleanAllDone
    /\ Len(git.commits) >= 3
    /\ Work \in git.wt
    /\ \E c \in 1..Len(git.commits) : Work \notin git.commits[c].tree /\ git.commits[c].parent # 0


RewriteCommands ==
    {"git checkout --orphan", "git add -A", "git commit -m", "git branch -D", "git branch -m"}

RecoveryAfter(i) ==
    \E j \in (i + 1)..Len(log) : log[j].cmd = "git checkout" /\ log[j].arg = mem.currentBranch

\* C19: once clean-all or the orphan path of clean-history has ended after a
\* failed command of its rewrite sequence, a git checkout of the original
\* branch was attempted after the failure.
RewriteFailureRecovered ==
    pc = "exit" =>
      \A i \in 1..Len(log) :
        (log[i].cmd \in RewriteCommands /\ ~log[i].ok) => RecoveryAfter(i)

\* The same for clean-all alone, whose catch block does attempt the checkout.
CleanAllFailureRecovered ==
    (pc = "exit" /\ args.cmd = "--clean-all") =>
      \A i \in 1..Len(log) :
        (log[i].cmd \in RewriteCommands /\ ~log[i].ok) => RecoveryAfter(i)


\* The name the loop tries in its round j: the base name, then base-1, base-2, ...
ProbeName(base, j) == IF j = 0 THEN base ELSE Numbered(base, j)

\* The entry gh repo view <user>/<name of round j> leaves in the log.
Probe(j, found) ==
    Entry("gh repo view",
          FullName(ConfigStr(mem.freshConfig, GithubUsername),
                   ProbeName(baseRepoName(ConfigStr(mem.freshConfig, ProjectName)), j)),
          found)

\* C15: in the naming loop of setupRemoteRepo the name in hand in round k is
\* the base name (k = 0) or base-k, every name of the rounds before was found
\* by gh repo view (and is on GitHub), and the loop is left exactly after the
\* first name that is not found, which is the chosen one.
NameIsFirstNotFound ==
    pc \in {"sr_probe", "sr_private"} =>
      /\ mem.repoName
           = ProbeName(baseRepoName(ConfigStr(mem.freshConfig, ProjectName)), mem.counter)
      /\ \A j \in 0..(mem.counter - 1) :
           <<ConfigStr(mem.freshConfig, GithubUsername),
             ProbeName(baseRepoName(ConfigStr(mem.freshConfig, ProjectName)), j)>>
               \in env.ghRepos
      /\ pc = "sr_probe" =>
           /\ Len(log) >= mem.counter
           /\ \A j \in 0..(mem.counter - 1) :
                log[Len(log) - mem.counter + 1 + j] = Probe(j, TRUE)
      /\ pc = "sr_private" =>
           /\ Len(log) >= mem.counter + 1
           /\ \A j \in 0..mem.counter :
                log[Len(log) - mem.counter + j] = Probe(j, j < mem.counter)

\* The base name and base-1 were found, base-2 was chosen.
NameIsFirstNotFoundWitness ==
    /\ pc = "sr_private"
    /\ mem.counter = 2
    /\ mem.repoName = <<"proj", "-", "2">>


\* The two offers setupRemoteRepo makes for an origin of another account.
RemoveOffers ==
    {"Do you want to create a new repository under your account instead? (Y/N): ",
     "Create a new repository under your account instead? (Y/N): "}

OfferAcceptedBefore(i) ==
    \E j \in 1..(i - 1) : log[j].cmd \in RemoveOffers /\ IsY(log[j].arg)

\* C16: git remote remove origin is run only after the user accepted an offer
\* to remove and recreate the remote, and after a declined offer origin is
\* what it was.
RemoveOriginOnlyOnOffer ==
    /\ \A i \in 1..Len(log) :
         log[i].cmd = "git remote remove origin" => OfferAcceptedBefore(i)
    /\ \A i \in 1..Len(log) :
         (/\ log[i].cmd \in RemoveOffers
          /\ ~IsY(log[i].arg)
          /\ ~OfferAcceptedBefore(Len(log) + 1)) =>
            git.hasOrigin /\ git.origin = mem.remoteUrl

\* The part that holds: an origin of another account is removed only after
\* an accepted offer, and kept as it was after a declined one.
OtherAccountRemovedOnlyOnOffer ==
    /\ \A i \in 1..Len(log) :
         (/\ log[i].cmd = "git remote remove origin"
          /\ mem.repoFullName.user # ConfigStr(mem.freshConfig, GithubUsername)) =>
            OfferAcceptedBefore(i)
    /\ \A i \in 1..Len(log) :
         (/\ log[i].cmd \in RemoveOffers
          /\ ~IsY(log[i].arg)
          /\ ~OfferAcceptedBefore(Len(log) + 1)) =>
            git.hasOrigin /\ git.origin = mem.remoteUrl


\* The config field an operation requires, by the label it starts at.
RequiredKey(label) == IF label \in {"ch_start", "ca_start"} THEN GithubUsername ELSE ProjectName

OpStarts == {"qb_start", "cm_start", "nb_start", "ch_start", "ca_start"}

\* readConfig gives null, or the field is missing or empty.
Unconfigured(cfg, key) == cfg.null \/ ~Truthy(cfg, key)

\* C17: quick-backup, commit, new-branch, clean-history and clean-all, started
\* with a config that is missing, unreadable, unparsable or without the field
\* the operation requires, end in their first step: no git or gh command is
\* run, no prompt is made, and the repository and GitHub are untouched.
UnconfiguredAborts ==
    [][(/\ pc \in OpStarts
        /\ \/ Unconfigured(readConfig(configFile, isOpMode, TRUE), RequiredKey(pc))
           \/ Unconfigured(mem'.config, RequiredKey(pc)))
         => /\ pc' = "exit"
            /\ log' = log
            /\ git' = git
            /\ env' = env
            /\ configFile' = configFile]_vars

AbortedUnconfigured(handler, key) ==
    /\ pc = "exit"
    /\ called # <<>>
    /\ called[Len(called)] = handler
    /\ Unconfigured(mem.config, key)
    /\ \A i \in 1..Len(log) : log[i].cmd = "Please choose an option (0-6): "

\* clean-all gave up on a config without githubUsername, with nothing run.
UnconfiguredAbortsWitness ==
    /\ AbortedUnconfigured("opCleanAllCommits", GithubUsername)
    /\ configFile = ValidConfig(<<"proj">>, <<>>)
    /\ ~mem.config.null


\* C18: after the user has declined a confirmation prompt (here the
\* empty-commit prompt of --commit), no step of the rest of the invocation
\* changes the local repository, the remote, GitHub, the config file or
\* .gitignore.
DeclineHasNoSideEffects ==
    [][DeclinedEmptyCommit =>
         /\ git' = git
         /\ env' = env
         /\ configFile' = configFile
         /\ gitignore' = gitignore]_vars

\* The same for the confirmations of clean-history and clean-all, which do
\* end the invocation at once.
CleanDeclineHasNoSideEffects ==
    [][(\E i \in 1..Len(log) :
          log[i].cmd \in {ConfirmClean, ConfirmCleanAll} /\ ~IsY(log[i].arg)) =>
         /\ git' = git
         /\ env' = env
         /\ configFile' = configFile
         /\ gitignore' = gitignore
         /\ log' = log]_vars


\* C20: no step of the tool removes a config file that exists.
ConfigNeverDeleted == [][configFile.exists => configFile'.exists]_vars

\* What does hold: only the installer's removal of the tool directory, after
\* the user agreed to overwrite it, takes an existing config file away.
ConfigDeletedOnlyByOverwrite ==
    [][(configFile.exists /\ ~configFile'.exists) =>
          /\ pc = "hi_overwrite"
          /\ Len(log') = Len(log) + 1
          /\ log'[Len(log')].cmd = OverwritePrompt
          /\ IsY(log'[Len(log')].arg)]_vars


ReachedRemoteSetup == \E i \in 1..Len(called) : called[i] = "setupRemoteRepo"

\* What the config file holds under that key.
Stored(key) == ConfigStr(readConfig(configFile, TRUE, TRUE), key)

\* C21: once --init has reached the remote setup, the config file holds the
\* basename of the project root as projectName and the login of the
\* authenticated GitHub account as githubUsername.
InitStoresNameAndLogin ==
    ReachedRemoteSetup =>
      /\ Stored(ProjectName) = env.basename
      /\ Stored(GithubUsername) = env.ghUser.login

\* What holds: projectName is the basename, and a stored githubUsername other
\* than the account's login is one the config held before the run (bob, in
\* the runs followed here).
InitStoresName ==
    ReachedRemoteSetup =>
      /\ Stored(ProjectName) = env.basename
      /\ Stored(GithubUsername) # env.ghUser.login =>
           \E u \in {<<"bob">>} : Stored(GithubUsername) = u


\* The subcommands, the handler of each and the label the handler starts at.
DispatchTable ==
    {<<"--init", "opInitBackup", "in_start">>,
     <<"--qbackup", "opQuickBackup", "qb_start">>,
     <<"--commit", "opCommitWithMessage", "cm_start">>,
     <<"--menu", "opShowBackupMenu", "menu">>,
     <<"--clean-history", "opCleanOldUserCommits", "ch_start">>,
     <<"--clean-all", "opCleanAllCommits", "ca_start">>,
     <<"--delete-repo", "opDeleteRemoteRepo", "dr_start">>,
     <<"--delrepo", "opDeleteRemoteRepo", "dr_start">>}

RowsOf(command) == {row \in DispatchTable : row[1] = command}

\* C22: the dispatcher starts, for a subcommand, its one handler and nothing
\* else; for --help, no argument and any other first argument it shows the
\* help text and ends; and it runs no git or gh command itself.
DispatchesToOneHandler ==
    [][(pc = "main" /\ isOpMode) =>
         /\ log' = log /\ git' = git /\ env' = env /\ configFile' = configFile
         /\ \/ called' = called /\ pc' = "exit"
            \/ /\ Cardinality(RowsOf(args.cmd)) = 1
               /\ \A row \in RowsOf(args.cmd) :
                    called' = Append(called, row[2]) /\ pc' = row[3]
            \/ /\ RowsOf(args.cmd) = {}
               /\ called' = Append(called, "showOperationMenu")
               /\ pc' = "exit"]_vars

\* --delrepo started the delete handler.
DispatchesToOneHandlerWitness ==
    /\ args.cmd = "--delrepo"
    /\ pc = "dr_start"
    /\ called = <<"opDeleteRemoteRepo">>


\* C23: within one invocation a command that has failed is never executed
\* again (the same command with the same arguments).
FailedCommandNotRunAgain ==
    \A i \in 1..Len(log) :
      ~log[i].ok =>
        \A j \in (i + 1)..Len(log) : ~(log[j].cmd = log[i].cmd /\ log[j].arg = log[i].arg)


\* No commit that git log --all lists is by another author than the
\* configured user (in particular when it lists none).
NothingToClean ==
    \E currentUser \in {Stored(GithubUsername)} :
      \A c \in ReachableFromRefs(git) : AuthoredAs(git.commits[c].author, currentUser)

\* Where clean-history stands once it has decided to rewrite.
RewriteLabels ==
    {"ch_orphan", "ch_add", "ch_commit", "ch_delete", "ch_rename", "ch_reset", "ch_push"}

ReadOnlyCommands ==
    {"git rev-parse --abbrev-ref HEAD", "git branch --show-current", "git log --all"}

\* C24: clean-history on a repository with nothing to clean takes no step
\* that changes the repository, makes no prompt, and runs no command other
\* than the ones that read the branch and the log.
NothingToCleanChangesNothing ==
    [][(args.cmd = "--clean-history" /\ pc \notin RewriteLabels /\ NothingToClean) =>
         /\ git' = git
         /\ configFile' = configFile
         /\ \A i \in (Len(log) + 1)..Len(log') : log'[i].cmd \in ReadOnlyCommands
         /\ pc' \notin RewriteLabels]_vars

\* clean-history read a log of several commits, all by the configured user,
\* and ended there.
NothingToCleanWitness ==
    /\ args.cmd = "--clean-history"
    /\ pc = "exit"
    /\ NothingToClean
    /\ Cardinality(ReachableFromRefs(git)) = MaxCommits
    /\ log # <<>>
    /\ log[Len(log)] = Entry("git log --all", <<>>, TRUE)


InNewBranch == \E i \in 1..Len(called) : called[i] = "opBackupToNewBranch"

\* The uncommitted work is in the working tree, or in a commit that a local
\* branch, HEAD, a remote-tracking ref or a branch on the server reaches.
WorkKept(g) ==
    \/ Work \in g.wt
    \/ \E c \in ReachableFromRefs(g) \cup
                UNION {Ancestors(g.commits, g.remote[b]) : b \in DOMAIN g.remote} :
         Work \in g.commits[c].tree

\* C25: no step of opBackupToNewBranch takes the work that was uncommitted
\* when it started out of both the working tree and every branch.
NewBranchKeepsWork == [][(InNewBranch /\ WorkKept(git)) => WorkKept(git')]_vars


\* The step appended exactly one entry to the log: that command on the branch.
RanOnly(cmd) ==
    /\ Len(log') = Len(log) + 1
    /\ SubSeq(log', 1, Len(log)) = log
    /\ log'[Len(log')].cmd = cmd
    /\ log'[Len(log')].arg = mem.branchName

\* C26: displaySyncStatus runs git push origin <branch> when the state is
\* ahead, git push -u origin <branch> when it is no_remote, and nothing in any
\* other state; whether or not the push failed, it returns to its caller
\* without raising.
PushOnlyAheadOrNoRemote ==
    [][pc = "ds_start" =>
         /\ mem.status.sync = "ahead" => RanOnly("git push origin")
         /\ mem.status.sync = "no_remote" => RanOnly("git push -u origin")
         /\ mem.status.sync \notin {"ahead", "no_remote"} => log' = log /\ git' = git
         /\ ~log'[Len(log')].ok => git' = git
         /\ ret' = ret /\ ~ret'.thrown
         /\ stack # <<>> /\ pc' = Head(stack) /\ stack' = Tail(stack)]_vars

\* displaySyncStatus returned after a failed push of a branch not on the remote.
PushOnlyAheadOrNoRemoteWitness ==
    /\ pc = "exit"
    /\ called # <<>> /\ log # <<>>
    /\ Last(called) = "displaySyncStatus"
    /\ mem.status.sync = "no_remote"
    /\ Last(log) = Entry("git push -u origin", mem.branchName, FALSE)

\* displaySyncStatus was entered in a state in which it must not push.
DivergedSeenWitness ==
    /\ pc = "ds_start"
    /\ mem.status.sync = "diverged"


\* C27: opQuickBackup goes on to stage, commit and push exactly when, the
\* config being valid and the branch determined, getGitStatus reported a git
\* repository with changes, whatever the sync state; a commit is made in no
\* other step than commitAndPush's git commit, and is made when that
\* command succeeds.
QuickBackupCommitsOnChanges ==
    [][args.cmd = "--qbackup" =>
         /\ pc = "qb_status" =>
              (pc' = "cp_add" <=> (mem.status.isRepo /\ mem.status.hasChanges))
         /\ pc' = "cp_add" =>
              /\ pc = "qb_status"
              /\ ~Unconfigured(mem.config, ProjectName)
              /\ mem.currentBranch # <<>>
         /\ Len(git'.commits) # Len(git.commits) => pc = "cp_commit"
         /\ (pc = "cp_commit" /\ log'[Len(log')].ok) =>
              Len(git'.commits) = Len(git.commits) + 1]_vars

\* quick-backup committed although the sync state could not be determined.
QuickBackupCommitsOnChangesWitness ==
    /\ args.cmd = "--qbackup"
    /\ mem.status.sync = "error"
    /\ mem.status.hasChanges
    /\ RanOk("git commit -m")
    /\ RanOk("git push origin")

\* The same with the branch behind and with the branch diverged.
QuickBackupBehindWitness ==
    args.cmd = "--qbackup" /\ mem.status.sync = "behind" /\ RanOk("git commit -m")

QuickBackupDivergedWitness ==
    args.cmd = "--qbackup" /\ mem.status.sync = "diverged" /\ RanOk("git commit -m")


\* Positions of the log before i that hold command cmd.
Before(i, cmd) == {j \in 1..(i - 1) : log[j].cmd = cmd}

\* The newest entry of command cmd before position i (there is one).
Newest(i, cmd) == log[CHOOSE j \in Before(i, cmd) : \A k \in Before(i, cmd) : k <= j]

\* The checks that precede gh repo delete at position i of the log, in the
\* order of the handler.
DeleteChecked(i) ==
    /\ env.ghInstalled
    /\ \E a \in Before(i, "gh auth status"), n \in Before(i, DeleteNamePrompt),
          v \in Before(i, "gh repo view"), c \in Before(i, DeleteConfirmPrompt) :
         /\ a < n /\ n < v /\ v < c /\ c = i - 1
         /\ \A k \in Before(i, "gh auth status") : k <= a
         /\ log[a].ok /\ Includes(log[a].arg, <<"delete_repo">>)
         /\ log[n].arg = log[i].arg /\ Includes(log[n].arg, <<"/">>)
         /\ log[v].arg = log[i].arg /\ log[v].ok
         /\ log[c].arg = log[i].arg

\* C28: gh repo delete runs only after, in this order, gh was found
\* installed, gh auth status succeeded and reported the delete_repo scope,
\* a name with "/" was entered, gh repo view of that name succeeded and the
\* confirmation typed equalled the name; origin is removed only after a
\* successful delete and only if its URL contains the deleted name.
DeleteOnlyAfterChecks ==
    \A i \in 1..Len(log) :
      /\ log[i].cmd = "gh repo delete" => DeleteChecked(i)
      /\ log[i].cmd = "git remote remove origin" =>
           /\ Before(i, "gh repo delete") # {}
           /\ Newest(i, "gh repo delete").ok
           /\ log[i - 1].cmd = "git remote get-url origin"
           /\ log[i - 1].ok
           /\ Includes(log[i - 1].arg, Newest(i, "gh repo delete").arg)

\* A repository was deleted on GitHub and origin, which pointed at it,
\* was removed.
DeleteOnlyAfterChecksWitness ==
    /\ pc = "exit"
    /\ called = <<"opDeleteRemoteRepo">>
    /\ \E i \in 1..Len(log) : log[i].cmd = "gh repo delete" /\ log[i].ok
    /\ log # <<>> /\ Last(log) = Entry("git remote remove origin", <<>>, TRUE)
    /\ ~git.hasOrigin
    /\ <<<<"alice">>, <<"proj">>>> \notin env.ghRepos

\* The scope was missing at first and was granted in the other window.
DeleteAfterGrantWitness ==
    /\ \E i \in 1..Len(log) : log[i].cmd = "gh repo delete" /\ log[i].ok
    /\ \E i \in 1..Len(log) : log[i].cmd = GrantPrompt

\* The repository was deleted and origin, which points elsewhere, stays.
DeleteKeepsOtherOriginWitness ==
    /\ pc = "exit" /\ log # <<>>
    /\ Last(log).cmd = "git remote get-url origin" /\ Last(log).ok
    /\ git.hasOrigin


\* Some branch has a commit with exactly the files of the working tree.
HoldsFiles(g) ==
    \E b \in DOMAIN g.branches : g.branches[b] # 0 /\ TreeOf(g, g.branches[b]) = g.wt

\* Position i of the log is the recovery checkout that follows a failed
\* rename.
RecoveryOfRename(i) ==
    /\ i > 1
    /\ log[i].cmd = "git checkout"
    /\ log[i - 1].cmd = "git branch -m" /\ ~log[i - 1].ok

\* C29 as stated: the branch is deleted only after the orphan commit was
\* made, from then on some branch holds the working-tree files, and the
\* recovery checkout after a failed rename never succeeds.
DeleteAfterOrphanCommit ==
    \A i \in 1..Len(log) :
      /\ log[i].cmd = "git branch -D" =>
           i > 1 /\ log[i - 1].cmd = "git commit -m" /\ log[i - 1].ok
      /\ (log[i].cmd = "git branch -D" /\ log[i].ok) => HoldsFiles(git)
      /\ RecoveryOfRename(i) => ~log[i].ok

\* C29: the branch is deleted only after the orphan commit was made, from
\* then on some branch holds the working-tree files, and the recovery
\* checkout after a failed rename succeeds only where origin/<branch> is
\* known, from which git makes the branch again.
DeleteAfterOrphanCommitOrTracked ==
    \A i \in 1..Len(log) :
      /\ log[i].cmd = "git branch -D" =>
           i > 1 /\ log[i - 1].cmd = "git commit -m" /\ log[i - 1].ok
      /\ (log[i].cmd = "git branch -D" /\ log[i].ok) => HoldsFiles(git)
      /\ (RecoveryOfRename(i) /\ log[i].ok) =>
           git.hasOrigin /\ git.tracking[mem.currentBranch] # 0

\* The rename failed after the deletion and the recovery checkout failed,
\* for want of the branch.
DeleteAfterOrphanCommitWitness ==
    /\ pc = "exit" /\ called # <<>> /\ called[1] = "opCleanAllCommits"
    /\ Len(log) > 1 /\ RecoveryOfRename(Len(log)) /\ ~Last(log).ok
    /\ git.branches[mem.currentBranch] = 0
    /\ git.head = TempCleanBranch /\ HoldsFiles(git)

\* The same, with origin/<branch> known: the checkout made the branch again.
RecoveryFromTrackingWitness ==
    /\ pc = "exit" /\ called # <<>> /\ called[1] = "opCleanAllCommits"
    /\ Len(log) > 1 /\ RecoveryOfRename(Len(log)) /\ Last(log).ok
    /\ git.head = mem.currentBranch

\* The orphan path of clean-history deleted and renamed the branch.
OrphanPathOfHistoryWitness ==
    /\ called # <<>> /\ called[1] = "opCleanOldUserCommits"
    /\ \E i \in 1..Len(log) : log[i].cmd = "git branch -m" /\ log[i].ok
    /\ HoldsFiles(git)


MenuAskedTwiceWitness ==
    /\ pc = "exit"
    /\ args.cmd = "--menu"
    /\ Len(log) > 2 /\ log[1].cmd = log[2].cmd
    /\ log[1].arg = <<"7">>

\* The repository-name loop went round and the invocation ended.
NameLoopWitness ==
    /\ pc = "exit"
    /\ Cardinality({i \in 1..Len(log) : log[i].cmd = "gh repo view"}) > 1
    /\ args.cmd = "--init"

====
